---- MODULE Spec2Model ----
(***************************************************************************)
(* A model of the Sims 4 mod conflict detector:                            *)
(*   - the conflict aggregation (package_parser.find_conflicts and the     *)
(*     inline merge loop of mod_conflict_detector.detect_conflicts),       *)
(*   - the aggregation fed by parallel workers through one collector,      *)
(*   - the DBPF package parser (package_parser.parse_package_file), on a   *)
(*     system whose requests succeed and on one that may fail them,        *)
(*   - the batch scan of mod_conflict_detector.detect_conflicts.           *)
(* Each part has its own specification (SpecAgg, SpecPar, SpecParse,       *)
(* SpecIO, SpecBatch); the variables of the other parts stay at their idle *)
(* values.                                                                 *)
(***************************************************************************)
EXTENDS Integers, Sequences, FiniteSets, TLC

VARIABLES
    files,          \* resource_keys_by_file: the paths, in dict insertion order
    keysOf,         \* resource_keys_by_file: path -> set of ResourceKey
    aggPc,          \* "ready" before the call, "done" after it
    aggCall,        \* which aggregation ran: "none", "full", "by_type", "inline"
    aggResult,      \* what the call produced: [raised, map]
    workerSets,     \* parallel scan: path -> the key set its worker's parse yields
    pending,        \* parallel scan: the files whose worker has not finished
    inbox,          \* parallel scan: finished results, in finishing order
    resource_map,   \* parallel scan: the collector's reverse index [raised, map]
    path,           \* parser: the path given to parse_package_file
    fileExists,     \* parser: whether a file is at that path
    content,        \* parser: the bytes of the file
    desc,           \* parser: how the file was written (not seen by the parser)
    ioFault,        \* parser: which requests to the file the system fails
    parsePc,        \* parser: "ready" before the call, "parsed" after it
    outcome,        \* parser: what the call yielded
    batchFiles,     \* batch scan: package_files with what is on disk at each path
    batchPc,        \* batch scan: "loop" inside the for statement, "done" after it
    batchPos,       \* batch scan: how many files the loop has been through
    batchOutcomes,  \* batch scan: what each parse so far yielded, in order
    processed_count,
    error_count,
    resource_count,
    scanResourceMap, \* batch scan: resource_map of detect_conflicts [raised, map]
    conflicts,      \* batch scan: the dict detect_conflicts returns
    scanFs,         \* scanner: the directory tree on disk
    scanVerbose,    \* scanner: the argument verbose
    scanScripts,    \* scanner: the argument include_script_mods
    scanPc,         \* scanner: "ready" before the call, "scanned" after it
    scanResult,     \* scanner: what scan_mods_directory yielded
    rdBytes,        \* reader: the data both readers are opened on
    rdFile,         \* reader: the DBPFReader over a file object
    rdBuf,          \* reader: the DBPFReader over a bytes object or a mapping
    rdSeen,         \* reader: what the last operation gave back, per reader
    rdSteps,        \* reader: how many operations were made
    guiPc,          \* GUI: where the detection is
    run_button,     \* GUI: the state of the run button
    sys_stdout,     \* GUI: what sys.stdout is bound to
    guiCall,        \* GUI: the arguments and locals of the running _execute_detection
    mods_dir,       \* GUI: the directory in the entry field
    scheduled,      \* GUI: the calls root.after holds for later
    guiRuns,        \* GUI: how many detections were started
    guiEnd          \* GUI: how the last detection ended

aggVars == <<files, keysOf, aggPc, aggCall, aggResult>>

parVars == <<workerSets, pending, inbox, resource_map>>

parseVars == <<path, fileExists, content, desc, ioFault, parsePc, outcome>>

batchVars ==
    <<batchFiles, batchPc, batchPos, batchOutcomes, processed_count, error_count,
      resource_count, scanResourceMap, conflicts>>

scanVars == <<scanFs, scanVerbose, scanScripts, scanPc, scanResult>>

readerVars == <<rdBytes, rdFile, rdBuf, rdSeen, rdSteps>>

guiVars ==
    <<guiPc, run_button, sys_stdout, guiCall, mods_dir, scheduled, guiRuns, guiEnd>>

extraVars == <<scanVars, readerVars, guiVars>>

vars == <<aggVars, parVars, parseVars, batchVars, extraVars>>

(***************************************************************************)
(* Bounds and the value universe of the aggregation.                       *)
(***************************************************************************)
MaxFiles == 3

PathNames == <<"A", "B", "C", "D", "E", "F">>

Paths == {PathNames[i] : i \in 1..MaxFiles}

ResourceKey(t, g, i) == [type_id |-> t, group_id |-> g, instance_id |-> i]

\* K1 and K2 share a type_id, K3 has another one.
K1 == ResourceKey(1, 0, 1)

K2 == ResourceKey(1, 0, 2)

K3 == ResourceKey(2, 0, 1)

Keys == {K1, K2, K3}

Range(s) == {s[i] : i \in DOMAIN s}

\* The sequences over S without a repeated element: the key order of a dict.
DistinctSeqs(S, n) ==
    {s \in [1..n -> S] : \A i, j \in 1..n : i # j => s[i] # s[j]}

(***************************************************************************)
(* find_conflicts.  A dict is a function; indexing a key that is missing   *)
(* raises KeyError, which the fold carries as raised = TRUE.               *)
(***************************************************************************)
EmptyIndex == [raised |-> FALSE, map |-> <<>>]

\* mutant: the list is created but the guard is inverted, so the first
\* append finds no list (KeyError).
MergeFullNoInit(index, resource, file_path) ==
    LET m == IF resource \in DOMAIN index.map
             THEN index.map @@ (resource :> <<>>)
             ELSE index.map
    IN  IF resource \in DOMAIN m
        THEN [index EXCEPT !.map = [m EXCEPT ![resource] = Append(@, file_path)]]
        ELSE [index EXCEPT !.raised = TRUE]

\* mutant: the path is put in front of the list instead of behind it.
MergeFullPrepend(index, resource, file_path) ==
    LET m == IF resource \notin DOMAIN index.map
             THEN index.map @@ (resource :> <<>>)
             ELSE index.map
    IN  [index EXCEPT !.map = [m EXCEPT ![resource] = <<file_path>> \o @]]

\* mutant: the append sits in an else branch, so the first path of a key is lost.
MergeFullElse(index, resource, file_path) ==
    IF resource \notin DOMAIN index.map
    THEN [index EXCEPT !.map = index.map @@ (resource :> <<>>)]
    ELSE [index EXCEPT !.map = [index.map EXCEPT ![resource] = Append(@, file_path)]]

\* package_parser.py 580-582: create the list on first sight, then append.
MergeFull(index, resource, file_path) ==
    LET m == IF resource \notin DOMAIN index.map
             THEN index.map @@ (resource :> <<>>)
             ELSE index.map
    IN  IF resource \in DOMAIN m
        THEN [index EXCEPT !.map = [m EXCEPT ![resource] = Append(@, file_path)]]
        ELSE [index EXCEPT !.raised = TRUE]

\* mutant: the membership test before the append is dropped.
MergeByTypeNoDedup(index, resource, file_path) ==
    LET t == resource.type_id
        m == IF t \notin DOMAIN index.map
             THEN index.map @@ (t :> <<>>)
             ELSE index.map
    IN  [index EXCEPT !.map = [m EXCEPT ![t] = Append(@, file_path)]]

\* package_parser.py 570-573: keyed by type_id, append only a path not yet listed.
MergeByType(index, resource, file_path) ==
    LET t == resource.type_id
        m == IF t \notin DOMAIN index.map
             THEN index.map @@ (t :> <<>>)
             ELSE index.map
    IN  IF t \notin DOMAIN m
        THEN [index EXCEPT !.raised = TRUE]
        ELSE IF file_path \notin Range(m[t])
             THEN [index EXCEPT !.map = [m EXCEPT ![t] = Append(@, file_path)]]
             ELSE [index EXCEPT !.map = m]

\* mutant: the append sits in an else branch, so the first path of a key is lost.
MergeInlineElse(index, resource_key, file_path) ==
    IF resource_key \notin DOMAIN index.map
    THEN [index EXCEPT !.map = index.map @@ (resource_key :> <<>>)]
    ELSE [index EXCEPT !.map = [index.map EXCEPT ![resource_key] = Append(@, file_path)]]

\* mod_conflict_detector.py 76-78: the same step, written inline in the scan loop.
MergeInline(index, resource_key, file_path) ==
    LET m == IF resource_key \notin DOMAIN index.map
             THEN index.map @@ (resource_key :> <<>>)
             ELSE index.map
    IN  IF resource_key \in DOMAIN m
        THEN [index EXCEPT !.map = [m EXCEPT ![resource_key] = Append(@, file_path)]]
        ELSE [index EXCEPT !.raised = TRUE]

MergeStep(kind, index, resource, file_path) ==
    CASE kind = "full"    -> MergeFull(index, resource, file_path)
      [] kind = "by_type" -> MergeByType(index, resource, file_path)
      [] kind = "inline"  -> MergeInline(index, resource, file_path)

\* "for resource in resources": every element once, in the set's own order.
RECURSIVE MergeResources(_, _, _, _)
MergeResources(kind, index, resources, file_path) ==
    IF index.raised \/ resources = {}
    THEN index
    ELSE LET r == CHOOSE x \in resources : TRUE
         IN  MergeResources(kind, MergeStep(kind, index, r, file_path),
                            resources \ {r}, file_path)

\* "for file_path, resources in resource_keys_by_file.items()", from file i on.
RECURSIVE MergeFiles(_, _, _, _, _)
MergeFiles(kind, index, order, sets, i) ==
    IF index.raised \/ i > Len(order)
    THEN index
    ELSE MergeFiles(kind, MergeResources(kind, index, sets[order[i]], order[i]),
                    order, sets, i + 1)

\* mutant: keeps every key that has at least one file.
FilterConflictsAtLeastOne(map) ==
    [k \in {x \in DOMAIN map : Len(map[x]) >= 1} |-> map[k]]

\* package_parser.py 585-589: keep the keys with len(files) > 1.
FilterConflicts(map) ==
    [k \in {x \in DOMAIN map : Len(map[x]) > 1} |-> map[k]]

\* mutant: the filter of the scan keeps a key that one file holds.
FilterInlineAtLeastOne(rmap) ==
    [k \in {x \in DOMAIN rmap : Len(rmap[x]) >= 1} |-> rmap[k]]

\* mod_conflict_detector.py 89: the same filter, len(paths) > 1.
FilterInline(rmap) ==
    [k \in {x \in DOMAIN rmap : Len(rmap[x]) > 1} |-> rmap[k]]

find_conflicts(order, sets, group_by_type) ==
    LET index == MergeFiles(IF group_by_type THEN "by_type" ELSE "full",
                            EmptyIndex, order, sets, 1)
    IN  IF index.raised
        THEN index
        ELSE [raised |-> FALSE, map |-> FilterConflicts(index.map)]

\* The merge loop and the filter of detect_conflicts, over the parsed sets.
detect_conflicts_merge(package_files, sets) ==
    LET index == MergeFiles("inline", EmptyIndex, package_files, sets, 1)
    IN  IF index.raised
        THEN index
        ELSE [raised |-> FALSE, map |-> FilterInline(index.map)]

(***************************************************************************)
(* The aggregation as a state machine: an input mapping, then one call.    *)
(***************************************************************************)
AggIdle ==
    /\ files = <<>>
    /\ keysOf = <<>>
    /\ aggPc = "idle"
    /\ aggCall = "none"
    /\ aggResult = EmptyIndex

ParIdle ==
    /\ workerSets = <<>>
    /\ pending = {}
    /\ inbox = <<>>
    /\ resource_map = EmptyIndex

ParseIdle ==
    /\ path = <<>>
    /\ fileExists = FALSE
    /\ content = <<>>
    /\ desc = <<>>
    /\ ioFault = <<>>
    /\ parsePc = "idle"
    /\ outcome = <<>>

BatchIdle ==
    /\ batchFiles = <<>>
    /\ batchPc = "idle"
    /\ batchPos = 0
    /\ batchOutcomes = <<>>
    /\ processed_count = 0
    /\ error_count = 0
    /\ resource_count = 0
    /\ scanResourceMap = EmptyIndex
    /\ conflicts = <<>>

ScanIdle ==
    /\ scanFs = <<>>
    /\ scanVerbose = FALSE
    /\ scanScripts = FALSE
    /\ scanPc = "idle"
    /\ scanResult = <<>>

ReaderIdle ==
    /\ rdBytes = <<>>
    /\ rdFile = <<>>
    /\ rdBuf = <<>>
    /\ rdSeen = <<>>
    /\ rdSteps = 0

GuiIdle ==
    /\ guiPc = "off"
    /\ run_button = "off"
    /\ sys_stdout = "off"
    /\ guiCall = <<>>
    /\ mods_dir = "off"
    /\ scheduled = <<>>
    /\ guiRuns = 0
    /\ guiEnd = "off"

ExtraIdle == ScanIdle /\ ReaderIdle /\ GuiIdle

InitAgg ==
    /\ ParIdle
    /\ ParseIdle
    /\ BatchIdle
    /\ ExtraIdle
    /\ \E n \in 0..MaxFiles : files \in DistinctSeqs(Paths, n)
    /\ keysOf \in [Range(files) -> SUBSET Keys]
    /\ aggPc = "ready"
    /\ aggCall = "none"
    /\ aggResult = EmptyIndex

CallFindConflicts ==
    /\ aggPc = "ready"
    /\ aggResult' = find_conflicts(files, keysOf, FALSE)
    /\ aggCall' = "full"
    /\ aggPc' = "done"
    /\ UNCHANGED <<files, keysOf, parVars, parseVars, batchVars, extraVars>>

CallFindConflictsByType ==
    /\ aggPc = "ready"
    /\ aggResult' = find_conflicts(files, keysOf, TRUE)
    /\ aggCall' = "by_type"
    /\ aggPc' = "done"
    /\ UNCHANGED <<files, keysOf, parVars, parseVars, batchVars, extraVars>>

CallDetectConflictsMerge ==
    /\ aggPc = "ready"
    /\ aggResult' = detect_conflicts_merge(files, keysOf)
    /\ aggCall' = "inline"
    /\ aggPc' = "done"
    /\ UNCHANGED <<files, keysOf, parVars, parseVars, batchVars, extraVars>>

NextAgg ==
    \/ CallFindConflicts
    \/ CallFindConflictsByType
    \/ CallDetectConflictsMerge

SpecAgg == InitAgg /\ [][NextAgg]_vars

(***************************************************************************)
(* The scan with parallel workers.  Every file is parsed by some worker,   *)
(* which hands its private key set to the collector when it finishes; the  *)
(* collector alone touches resource_map and merges one result at a time,   *)
(* in finishing order, with the merge step of detect_conflicts.  A file    *)
(* per task covers every split of the files among any number of workers.   *)
(***************************************************************************)
\* The files of the scan, in the order of the sequential loop.
package_files == SubSeq(PathNames, 1, MaxFiles)

InitPar ==
    /\ AggIdle
    /\ ParseIdle
    /\ BatchIdle
    /\ ExtraIdle
    /\ workerSets \in [Paths -> SUBSET Keys]
    /\ pending = Paths
    /\ inbox = <<>>
    /\ resource_map = EmptyIndex

\* A worker ends the parse of file_path and delivers its private result.
WorkerFinish(file_path) ==
    /\ file_path \in pending
    /\ pending' = pending \ {file_path}
    /\ inbox' = Append(inbox, [file_path |-> file_path,
                               resources |-> workerSets[file_path]])
    /\ UNCHANGED <<workerSets, resource_map, aggVars, parseVars, batchVars, extraVars>>

\* The collector takes the oldest delivered result and merges it.
CollectorMerge ==
    /\ inbox # <<>>
    /\ resource_map' = MergeResources("inline", resource_map,
                                      Head(inbox).resources, Head(inbox).file_path)
    /\ inbox' = Tail(inbox)
    /\ UNCHANGED <<workerSets, pending, aggVars, parseVars, batchVars, extraVars>>

NextPar ==
    \/ \E file_path \in Paths : WorkerFinish(file_path)
    \/ CollectorMerge

SpecPar == InitPar /\ [][NextPar]_vars

(***************************************************************************)
(* Numbers of the parser.  Python's integers are unbounded and the fields  *)
(* of a package are 32 and 64 bits wide, so a number is kept as the        *)
(* sequence of its base-16 digits, least significant first, without        *)
(* leading zeros (0 is the empty sequence).  Equal numbers are equal       *)
(* sequences.                                                              *)
(***************************************************************************)
\* one digit is four bits
Radix == 2 ^ 4

Min(a, b) == IF a <= b THEN a ELSE b

Max(a, b) == IF a >= b THEN a ELSE b

RECURSIVE Norm(_)
Norm(d) ==
    IF d = <<>> THEN <<>>
    ELSE IF d[Len(d)] = 0 THEN Norm(SubSeq(d, 1, Len(d) - 1)) ELSE d

\* The number written with the hex digits h, most significant first.
Hex(h) == Norm([i \in 1..Len(h) |-> h[Len(h) + 1 - i]])

RECURSIVE BigOfInt(_)
BigOfInt(n) == IF n = 0 THEN <<>> ELSE <<n % Radix>> \o BigOfInt(n \div Radix)

Digit(d, i) == IF i <= Len(d) THEN d[i] ELSE 0

RECURSIVE AddFrom(_, _, _, _)
AddFrom(a, b, i, carry) ==
    IF i > Len(a) /\ i > Len(b)
    THEN IF carry = 0 THEN <<>> ELSE <<carry>>
    ELSE LET t == Digit(a, i) + Digit(b, i) + carry
         IN  <<t % Radix>> \o AddFrom(a, b, i + 1, t \div Radix)

\* a + b
BigAdd(a, b) == Norm(AddFrom(a, b, 1, 0))

RECURSIVE MulDigitFrom(_, _, _, _)
MulDigitFrom(a, m, i, carry) ==
    IF i > Len(a)
    THEN IF carry = 0 THEN <<>> ELSE <<carry>>
    ELSE LET t == a[i] * m + carry
         IN  <<t % Radix>> \o MulDigitFrom(a, m, i + 1, t \div Radix)

RECURSIVE MulFrom(_, _, _)
MulFrom(a, b, j) ==
    IF j > Len(b) THEN <<>>
    ELSE BigAdd([i \in 1..(j - 1) |-> 0] \o MulDigitFrom(a, b[j], 1, 0),
                MulFrom(a, b, j + 1))

\* a * b, by long multiplication
BigMul(a, b) == Norm(MulFrom(a, b, 1))

\* The machine integer of a number below Radix^7.
RECURSIVE IntOfBig(_)
IntOfBig(d) == IF d = <<>> THEN 0 ELSE d[1] + Radix * IntOfBig(Tail(d))

\* Sizes and offsets of a modelled file stay far below Radix^7; a number read
\* from a file may not.  For a comparison with such a size, or a minimum with
\* one, a number of Radix^7 or more gives what Radix^7 gives.
SizeLimit == Radix * Radix * Radix * Radix * Radix * Radix * Radix

Clamp(d) == IF Len(d) <= 7 THEN IntOfBig(d) ELSE SizeLimit

(***************************************************************************)
(* Paths.  The parser looks inside the name of its file, so a path is the  *)
(* sequence of its characters.                                             *)
(***************************************************************************)
UpperCase == <<"A", "B", "C", "D", "E", "F", "G", "H", "I", "J", "K", "L", "M", "N", "O", "P", "Q", "R", "S", "T", "U", "V", "W", "X", "Y", "Z">>

LowerCase == <<"a", "b", "c", "d", "e", "f", "g", "h", "i", "j", "k", "l", "m", "n", "o", "p", "q", "r", "s", "t", "u", "v", "w", "x", "y", "z">>

\* str.lower(), character by character
Lower(str) ==
    [i \in 1..Len(str) |->
        IF \E j \in 1..Len(UpperCase) : UpperCase[j] = str[i]
        THEN LowerCase[CHOOSE j \in 1..Len(UpperCase) : UpperCase[j] = str[i]]
        ELSE str[i]]

\* "sub in str"
Contains(str, sub) ==
    \E i \in 0..(Len(str) - Len(sub)) : SubSeq(str, i + 1, i + Len(sub)) = sub

\* str.endswith(suffix)
EndsWith(str, suffix) ==
    /\ Len(suffix) <= Len(str)
    /\ SubSeq(str, Len(str) - Len(suffix) + 1, Len(str)) = suffix

\* os.path.basename: what follows the last separator
Basename(file_path) ==
    LET seps == {i \in 1..Len(file_path) : file_path[i] = "/"}
    IN  IF seps = {} THEN file_path
        ELSE SubSeq(file_path,
                    (CHOOSE i \in seps : \A j \in seps : j <= i) + 1,
                    Len(file_path))

PackageExtension == <<".", "p", "a", "c", "k", "a", "g", "e">>

NameDummy == <<"d", "u", "m", "m", "y", ".", "p", "a", "c", "k", "a", "g", "e">>

NameMalformed == <<"m", "a", "l", "f", "o", "r", "m", "e", "d", ".", "p", "a", "c", "k", "a", "g", "e">>

NameInvalidMagic == <<"i", "n", "v", "a", "l", "i", "d", "_", "m", "a", "g", "i", "c", ".", "p", "a", "c", "k", "a", "g", "e">>

MarkTest == <<"t", "e", "s", "t", "_">>

MarkV20 == <<"v", "2", "_", "0", "_", "c", "o", "r", "r", "e", "c", "t", "e", "d">>

MarkV21 == <<"v", "2", "_", "1", "_", "c", "o", "r", "r", "e", "c", "t", "e", "d">>

MarkDebug == <<"d", "e", "b", "u", "g", "_", "t", "e", "s", "t", "_", "v", "2">>

(***************************************************************************)
(* Bytes and struct.                                                       *)
(***************************************************************************)
\* b[lo:hi] of Python, for 0 <= lo
Slice(b, lo, hi) == SubSeq(b, lo + 1, Min(hi, Len(b)))

\* mutant: the bytes are taken most significant first ('>I').
UnpackBigEndian(b) ==
    Norm([i \in 1..(2 * Len(b)) |->
            IF i % 2 = 1 THEN b[Len(b) + 1 - (i + 1) \div 2] % Radix
                         ELSE b[Len(b) + 1 - i \div 2] \div Radix])

\* struct.unpack('<I', b)[0] and each half of '<HH': the little-endian
\* number of the bytes b.  The caller checks the length of b.
Unpack(b) ==
    Norm([i \in 1..(2 * Len(b)) |->
            IF i % 2 = 1 THEN b[(i + 1) \div 2] % Radix
                         ELSE b[i \div 2] \div Radix])

(***************************************************************************)
(* Program constants of package_parser.py.                                 *)
(***************************************************************************)
DBPF_HEADER_MAGIC == <<68, 66, 80, 70>>

DBPF_VERSION_1 == 1

DBPF_VERSION_2 == 2

HEADER_INDEX_VERSION_OFFSET == 28

HEADER_INDEX_COUNT_OFFSET == 32

HEADER_INDEX_OFFSET_OFFSET == 64

HEADER_SIZE == 96

RESOURCE_KEY_SIZE == 16

INDEX_ENTRY_SIZE == 28

\* the cap on the entries read from one file
ENTRY_CAP == 10000

\* int(4294967296), the multiplier of instance_high
TwoPow32 == Hex(<<1, 0, 0, 0, 0, 0, 0, 0, 0>>)

\* The names bound at module level that the parser refers to.
\* INDEX_COUNT_V1_OFFSET and INDEX_TABLE_V1_OFFSET are used by
\* _parse_dbpf_v1 and bound nowhere.
ModuleGlobals ==
    {"DBPF_HEADER_MAGIC", "DBPF_VERSION_1", "DBPF_VERSION_2",
     "HEADER_INDEX_VERSION_OFFSET", "HEADER_INDEX_COUNT_OFFSET",
     "HEADER_INDEX_OFFSET_OFFSET", "HEADER_SIZE", "RESOURCE_KEY_SIZE",
     "INDEX_ENTRY_SIZE"}

(***************************************************************************)
(* What the operating system does to the requests made of the file.  The   *)
(* open is request 0, the reads and seeks of the reader are numbered from  *)
(* 1 in the order they are made; the requests first..last raise OSError.   *)
(* map tells what becomes of the memory mapping: "off" when use_mmap is     *)
(* False (USE_MMAP as shipped, or a file below MMAP_THRESHOLD), "maps"     *)
(* when mmap.mmap gives a mapping, "fails" when it raises and the parse    *)
(* falls back to the file object.                                          *)
(***************************************************************************)
NoFault == [first |-> 1, last |-> 0, map |-> "off"]

Fails(fault, n) == fault.first <= n /\ n <= fault.last

(***************************************************************************)
(* DBPFReader over a file object.  pos is the position of the file object, *)
(* offset the reader's own count; log keeps what was asked of the file,    *)
(* failed tells whether the last request raised OSError.                   *)
(***************************************************************************)
NewReader ==
    [pos |-> 0, offset |-> 0, file_size |-> -1, log |-> <<>>,
     fault |-> NoFault, failed |-> FALSE]

\* DBPFReader(f) on a file whose requests fail as fault says
OpenReader(fault) == [NewReader EXCEPT !.fault = fault]

ReaderRead(bytes, r, size) ==
    IF Fails(r.fault, Len(r.log) + 1)
    THEN [data |-> <<>>,
          r |-> [r EXCEPT !.log = Append(@, <<"read", r.pos, size>>),
                          !.failed = TRUE]]
    ELSE LET data == Slice(bytes, r.pos, r.pos + size)
         IN  [data |-> data,
              r |-> [r EXCEPT !.pos = @ + Len(data),
                              !.offset = @ + Len(data),
                              !.log = Append(@, <<"read", r.pos, size>>),
                              !.failed = FALSE]]

\* seek(offset, whence); the size is found on the first whence 2; the file
\* object refuses a target before 0 with OSError and is left where it was
ReaderSeek(bytes, r, offset, whence) ==
    LET size == IF whence = 2 /\ r.file_size = -1 THEN Len(bytes) ELSE r.file_size
        target == IF whence = 1 THEN r.offset + offset
                  ELSE IF whence = 2 THEN size + offset
                  ELSE offset
    IN  IF Fails(r.fault, Len(r.log) + 1) \/ target < 0
        THEN [r EXCEPT !.file_size = size,
                       !.log = Append(@, <<"seek", target, whence>>),
                       !.failed = TRUE]
        ELSE [r EXCEPT !.file_size = size,
                       !.pos = target,
                       !.offset = target,
                       !.log = Append(@, <<"seek", target, whence>>),
                       !.failed = FALSE]

ReaderTell(r) == r.pos

(***************************************************************************)
(* DBPFReader over a bytes object or a mapping: the reader keeps the       *)
(* position itself, in offset, and knows the size from the start.          *)
(***************************************************************************)
NewBufReader(bytes) == [offset |-> 0, file_size |-> Len(bytes)]

\* mutant of BufRead: the reader does not count the bytes it gave out
BufReadNoAdvance(bytes, b, size) ==
    [data |-> Slice(bytes, b.offset, b.offset + size), b |-> b]

\* Lines 127-136, for size >= 0
BufRead(bytes, b, size) ==
    LET data == Slice(bytes, b.offset, b.offset + size)
    IN  [data |-> data, b |-> [b EXCEPT !.offset = @ + Len(data)]]

\* Lines 157-175: the target is brought into 0..file_size
BufSeek(b, offset, whence) ==
    LET target == IF whence = 1 THEN b.offset + offset
                  ELSE IF whence = 2 THEN b.file_size + offset
                  ELSE offset
    IN  [b EXCEPT !.offset = Max(0, Min(target, b.file_size))]

BufTell(b) == b.offset

(***************************************************************************)
(* What a call yields: exc is "none" for a return, else the class of the   *)
(* exception; msg is the text of the exception, cause that of the          *)
(* exception it was made from.                                             *)
(***************************************************************************)
Returns(resources, layout, r, index_reads, warned, opened) ==
    [exc |-> "none", msg |-> "", cause |-> "", resources |-> resources,
     layout |-> layout, log |-> r.log, index_reads |-> index_reads,
     warned |-> warned, opened |-> opened, open_handles |-> {}]

Raises(exc, msg, layout, r, index_reads, opened) ==
    [exc |-> exc, msg |-> msg, cause |-> "", resources |-> {},
     layout |-> layout, log |-> r.log, index_reads |-> index_reads,
     warned |-> FALSE, opened |-> opened, open_handles |-> {}]

(***************************************************************************)
(* _parse_dbpf_v2                                                          *)
(***************************************************************************)
\* mutant: the record with type 0 and group 0 is not skipped.
DecodeV2EntryKeepHoles(entry_data) ==
    LET type_id == Unpack(Slice(entry_data, 0, 4))
        group_id == Unpack(Slice(entry_data, 4, 8))
        instance_high == Unpack(Slice(entry_data, 8, 12))
        instance_low == Unpack(Slice(entry_data, 12, 16))
    IN  {ResourceKey(type_id, group_id,
                     BigAdd(BigMul(instance_high, TwoPow32), instance_low))}

\* mutant: the two halves of the instance are taken in the v1 order.
DecodeV2EntrySwapped(entry_data) ==
    LET type_id == Unpack(Slice(entry_data, 0, 4))
        group_id == Unpack(Slice(entry_data, 4, 8))
        instance_high == Unpack(Slice(entry_data, 12, 16))
        instance_low == Unpack(Slice(entry_data, 8, 12))
    IN  IF type_id = <<>> /\ group_id = <<>>
        THEN {}
        ELSE {ResourceKey(type_id, group_id,
                          BigAdd(BigMul(instance_high, TwoPow32), instance_low))}

\* Lines 418-432: the keys one full record adds to the set (none for a hole).
DecodeV2Entry(entry_data) ==
    LET type_id == Unpack(Slice(entry_data, 0, 4))
        group_id == Unpack(Slice(entry_data, 4, 8))
        instance_high == Unpack(Slice(entry_data, 8, 12))
        instance_low == Unpack(Slice(entry_data, 12, 16))
    IN  IF type_id = <<>> /\ group_id = <<>>
        THEN {}
        ELSE {ResourceKey(type_id, group_id,
                          BigAdd(BigMul(instance_high, TwoPow32), instance_low))}

\* Lines 411-439: "for i in range(actual_entries)", from iteration i on.
RECURSIVE V2ReadEntries(_, _, _, _)
V2ReadEntries(bytes, st, i, actual_entries) ==
    IF i >= actual_entries
    THEN st
    ELSE LET e == ReaderRead(bytes, st.r, INDEX_ENTRY_SIZE)
         IN  IF e.r.failed
             THEN \* lines 437-439: "except Exception", then "continue"
                  V2ReadEntries(bytes,
                      [st EXCEPT !.r = e.r, !.index_reads = @ + 1],
                      i + 1, actual_entries)
             ELSE IF Len(e.data) < INDEX_ENTRY_SIZE
             THEN [st EXCEPT !.r = e.r, !.index_reads = @ + 1]
             ELSE V2ReadEntries(bytes,
                      [r |-> e.r,
                       resources |-> st.resources \cup DecodeV2Entry(e.data),
                       index_reads |-> st.index_reads + 1],
                      i + 1, actual_entries)

\* mutant: an index that starts right at the end of the header is accepted.
IndexOffsetInRangeInclusive(index_offset, file_size) ==
    Clamp(index_offset) >= HEADER_SIZE /\ Clamp(index_offset) < file_size - 4

\* Line 389
IndexOffsetInRange(index_offset, file_size) ==
    Clamp(index_offset) > HEADER_SIZE /\ Clamp(index_offset) < file_size - 4

\* without the cap of line 403: a mutant of ActualEntries
ActualEntriesUncapped(index_entry_count, index_offset, file_size) ==
    LET remaining_bytes == file_size - (Clamp(index_offset) + 4)
        max_possible_entries == remaining_bytes \div INDEX_ENTRY_SIZE
    IN  IF Clamp(index_entry_count) > 0
        THEN Min(Clamp(index_entry_count), max_possible_entries)
        ELSE max_possible_entries

\* takes the declared count as it is, 0 too: the mutant of ActualEntries
ActualEntriesDeclared(index_entry_count, index_offset, file_size) ==
    LET remaining_bytes == file_size - (Clamp(index_offset) + 4)
        max_possible_entries == remaining_bytes \div INDEX_ENTRY_SIZE
    IN  Min(Min(Clamp(index_entry_count), max_possible_entries), ENTRY_CAP)

\* Lines 398-406
ActualEntries(index_entry_count, index_offset, file_size) ==
    LET remaining_bytes == file_size - (Clamp(index_offset) + 4)
        max_possible_entries == remaining_bytes \div INDEX_ENTRY_SIZE
    IN  IF Clamp(index_entry_count) > 0
        THEN Min(Min(Clamp(index_entry_count), max_possible_entries), ENTRY_CAP)
        ELSE Min(max_possible_entries, ENTRY_CAP)

_parse_dbpf_v2(bytes, r0, opened) ==
    LET h == ReaderRead(bytes, r0, HEADER_SIZE - 8)
        header_data == h.data
        Fits(offset) == Len(header_data) - (offset - 8) >= 4
        Field(offset) == Unpack(Slice(header_data, offset - 8, offset - 4))
    IN  IF h.r.failed
        THEN Raises("OSError", "Input/output error", "v2", h.r, 0, opened)
        ELSE IF ~(/\ Fits(HEADER_INDEX_VERSION_OFFSET)
                  /\ Fits(HEADER_INDEX_COUNT_OFFSET)
                  /\ Fits(HEADER_INDEX_OFFSET_OFFSET))
        THEN Raises("struct.error", "unpack_from requires a buffer", "v2", h.r, 0, opened)
        ELSE
        LET index_entry_count == Field(HEADER_INDEX_COUNT_OFFSET)
            index_offset == Field(HEADER_INDEX_OFFSET_OFFSET)
            e == ReaderSeek(bytes, h.r, 0, 2)
            file_size == ReaderTell(e)
        IN  IF e.failed
            THEN Raises("OSError", "Input/output error", "v2", e, 0, opened)
            ELSE IF IndexOffsetInRange(index_offset, file_size)
            THEN LET s == ReaderSeek(bytes, e, Clamp(index_offset), 0)
                     t == ReaderRead(bytes, s, 4)
                 IN  IF s.failed
                     THEN Raises("OSError", "Input/output error", "v2", s, 0, opened)
                     ELSE IF t.r.failed
                     THEN Raises("OSError", "Input/output error", "v2", t.r, 0, opened)
                     ELSE IF Len(t.data) # 4
                     THEN Raises("struct.error", "unpack requires a buffer", "v2",
                                 t.r, 0, opened)
                     ELSE LET done == V2ReadEntries(bytes,
                                          [r |-> t.r, resources |-> {},
                                           index_reads |-> 0],
                                          0,
                                          ActualEntries(index_entry_count,
                                                        index_offset, file_size))
                          IN  Returns(done.resources, "v2", done.r,
                                      done.index_reads, FALSE, opened)
            ELSE Returns({}, "v2", e, 0, TRUE, opened)

(***************************************************************************)
(* _parse_dbpf_v1: its first statement looks up INDEX_COUNT_V1_OFFSET,     *)
(* which no module binds, so the call ends there with NameError.           *)
(***************************************************************************)
_parse_dbpf_v1(bytes, r0, opened) ==
    IF "INDEX_COUNT_V1_OFFSET" \notin ModuleGlobals
    THEN Raises("NameError", "name 'INDEX_COUNT_V1_OFFSET' is not defined",
                "v1", r0, 0, opened)
    ELSE Returns({}, "v1", r0, 0, FALSE, opened)

(***************************************************************************)
(* parse_package_file                                                      *)
(***************************************************************************)
_is_special_test_file(file_path) ==
    LET basename == Basename(file_path)
    IN  /\ file_path # <<>>
        /\ Contains(basename, MarkTest)
        /\ \/ Contains(basename, MarkV20)
           \/ Contains(basename, MarkV21)
           \/ Contains(basename, MarkDebug)

_handle_special_test_file(file_path) ==
    LET basename == Basename(file_path)
    IN  IF Contains(basename, MarkV20)
        THEN {ResourceKey(Hex(<<1,1,2,2,3,3,4,4>>), Hex(<<10,10,10,10,0,0,0,0>>),
                          Hex(<<9,9,10,10,11,11,12,12, 1,2,3,4,5,6,7,8>>)),
              ResourceKey(Hex(<<1,1,2,2,3,3,4,4>>), Hex(<<10,10,10,10,0,0,0,1>>),
                          Hex(<<15,14,13,12,11,10,0,9, 8,7,6,5,4,3,2,1>>))}
        ELSE IF Contains(basename, MarkV21)
        THEN {ResourceKey(Hex(<<5,5,6,6,7,7,8,8>>), Hex(<<11,11,11,11,0,0,0,0>>),
                          Hex(<<2,3,4,5,6,7,8,9, 10,11,12,13,14,15,0,1>>)),
              ResourceKey(Hex(<<5,5,6,6,7,7,8,8>>), Hex(<<11,11,11,11,0,0,0,1>>),
                          Hex(<<7,6,5,4,3,2,1,0, 15,14,13,12,11,10,9,8>>))}
        ELSE IF Contains(basename, MarkDebug)
        THEN {ResourceKey(Hex(<<10,10,11,11,12,12,13,13>>), Hex(<<1,1,2,2,3,3,4,4>>),
                          Hex(<<9,9,10,10,11,11,12,12, 5,5,6,6,7,7,8,8>>)),
              ResourceKey(Hex(<<10,10,11,11,12,12,13,13>>), Hex(<<5,5,6,6,7,7,8,8>>),
                          Hex(<<13,13,14,14,15,15,0,0, 9,9,10,10,11,11,12,12>>))}
        ELSE {}

\* Line 251: the set returned for 'dummy.package'
DummyResources ==
    {ResourceKey(Hex(<<0,0,11,2,13,8,8,2>>), <<>>, Hex(<<1,2,3,4,5,6,7,8>>))}

\* mutant: a major version that is not 2 is read with the v1 reader.
DispatchElseV1(major_version, bytes, r, opened) ==
    IF major_version = BigOfInt(DBPF_VERSION_2)
    THEN _parse_dbpf_v2(bytes, r, opened)
    ELSE _parse_dbpf_v1(bytes, r, opened)

\* Lines 295-304: the layout is chosen from the major version.
Dispatch(major_version, bytes, r, opened) ==
    IF major_version = BigOfInt(DBPF_VERSION_2)
    THEN _parse_dbpf_v2(bytes, r, opened)
    ELSE IF major_version = BigOfInt(DBPF_VERSION_1)
    THEN _parse_dbpf_v1(bytes, r, opened)
    ELSE Raises("ValueError", "Unsupported DBPF version", "none", r, 0, opened)

\* Lines 247-308: the file is open; read the magic and the version, dispatch.
ParseOpened(file_path, bytes, opened, fault) ==
    LET m == ReaderRead(bytes, OpenReader(fault), 4)
    IN  IF m.r.failed
        THEN Raises("OSError", "Input/output error", "none", m.r, 0, opened)
        ELSE IF m.data # DBPF_HEADER_MAGIC
        THEN Raises("ValueError", "Invalid package file format", "none", m.r, 0, opened)
        ELSE LET v == ReaderRead(bytes, m.r, 4)
             IN  IF v.r.failed
                 THEN Raises("OSError", "Input/output error", "none", v.r, 0, opened)
                 ELSE IF Len(v.data) # 4
                 THEN Raises("struct.error", "unpack requires a buffer of 4 bytes",
                             "none", v.r, 0, opened)
                 ELSE Dispatch(Unpack(Slice(v.data, 0, 2)), bytes, v.r, opened)

\* Lines 230-308: the body of the try statement.
ParseBody(file_path, exists, bytes, fault) ==
    LET basename == Basename(file_path)
        is_dummy == basename = NameDummy
        checks_magic == basename = NameInvalidMagic
        opened == IF checks_magic THEN 2 ELSE 1
    IN  IF _is_special_test_file(file_path)
        THEN Returns(_handle_special_test_file(file_path), "none", NewReader, 0, FALSE, 0)
        ELSE IF basename = NameMalformed
        THEN Raises("ValueError", "Malformed package structure", "none", NewReader, 0, 0)
        ELSE IF exists /\ Fails(fault, 0)
        THEN Raises("PermissionError", "Permission denied", "none", NewReader, 0, 0)
        ELSE IF checks_magic /\ Slice(bytes, 0, 4) # DBPF_HEADER_MAGIC
        THEN Raises("ValueError", "Invalid package file format", "none", NewReader, 0, 1)
        ELSE IF ~exists
        THEN Raises("FileNotFoundError", "No such file or directory", "none",
                    NewReader, 0, 0)
        ELSE IF is_dummy
        THEN Returns(DummyResources, "none", NewReader, 0, FALSE, opened)
        ELSE ParseOpened(file_path, bytes, opened, fault)

\* mutant: without the "except struct.error" clause of lines 310-312 and with
\* a last clause that lets the exception through.
NormaliseRawStruct(out) ==
    IF out.exc \in {"IOError", "OSError", "FileNotFoundError", "PermissionError"}
    THEN [out EXCEPT !.exc = "IOError",
                     !.msg = "Failed to read package file", !.cause = out.msg]
    ELSE out

\* Lines 310-319: the three except clauses.
Normalise(out) ==
    IF out.exc = "none" THEN out
    ELSE IF out.exc = "struct.error"
    THEN [out EXCEPT !.exc = "ValueError",
                     !.msg = "Malformed package structure", !.cause = out.msg]
    ELSE IF out.exc \in {"IOError", "OSError", "FileNotFoundError", "PermissionError"}
    THEN [out EXCEPT !.exc = "IOError",
                     !.msg = "Failed to read package file", !.cause = out.msg]
    ELSE [out EXCEPT !.exc = "ValueError",
                     !.msg = "Failed to parse package file", !.cause = out.msg]

\* mutant of ReaderClose: close() leaves the mapping open
ReaderCloseNothing(handles, is_mmap) == handles

\* Lines 189-192, DBPFReader.close: closes a mapping; a file object is left
\* to the with statement that opened it
ReaderClose(handles, is_mmap) ==
    IF is_mmap THEN handles \ {"mapped_file"} ELSE handles

\* the end of a "with open(...) as f" block, by return or by exception
WithExit(handles, f) == handles \ {f}

\* Lines 256-280: the reader is made over a mapping
UsesMmap(fault) == fault.map = "maps"

\* The file objects and mappings the call has opened and not closed when it
\* leaves the try statement of lines 230-308.
HandlesAtExit(file_path, exists, bytes, fault) ==
    LET basename == Basename(file_path)
        is_dummy == basename = NameDummy
        checks_magic == basename = NameInvalidMagic
        after_magic == IF checks_magic THEN WithExit({"magic_file"}, "magic_file")
                       ELSE {}
        in_with == after_magic \cup {"f"}
        in_try == IF UsesMmap(fault) THEN in_with \cup {"mapped_file"} ELSE in_with
    IN  IF _is_special_test_file(file_path) \/ basename = NameMalformed THEN {}
        ELSE IF exists /\ Fails(fault, 0) THEN {}
        ELSE IF checks_magic /\ Slice(bytes, 0, 4) # DBPF_HEADER_MAGIC THEN after_magic
        ELSE IF ~exists THEN {}
        ELSE IF is_dummy THEN WithExit(in_with, "f")
        ELSE WithExit(ReaderClose(in_try, UsesMmap(fault)), "f")

\* the try statement of lines 230-319 and what it leaves open
ParseTry(file_path, exists, bytes, fault) ==
    [Normalise(ParseBody(file_path, exists, bytes, fault))
        EXCEPT !.open_handles = HandlesAtExit(file_path, exists, bytes, fault)]

\* mutant: the extension of the path is not looked at.
ParseAnyExtension(file_path, exists, bytes, fault) ==
    LET is_dummy == Basename(file_path) = NameDummy
    IN  IF ~is_dummy /\ ~exists
        THEN Raises("FileNotFoundError", "File not found", "none", NewReader, 0, 0)
        ELSE ParseTry(file_path, exists, bytes, fault)

parse_package_file(file_path, exists, bytes, fault) ==
    LET is_dummy == Basename(file_path) = NameDummy
    IN  IF ~is_dummy /\ ~exists
        THEN Raises("FileNotFoundError", "File not found", "none", NewReader, 0, 0)
        ELSE IF ~is_dummy /\ ~EndsWith(Lower(file_path), PackageExtension)
        THEN Raises("ValueError", "Not a package file", "none", NewReader, 0, 0)
        ELSE ParseTry(file_path, exists, bytes, fault)

(***************************************************************************)
(* The files given to the parser.  A file is written from a description:   *)
(* the layout, the header fields, the records of the index and the number  *)
(* of bytes cut off its end.                                               *)
(***************************************************************************)
MaxRecords == 2

\* the offsets at which test_parse_package_file_v1 writes the count and the table
TestV1CountOffset == 36

TestV1TableOffset == 84

Zeros(n) == [i \in 1..n |-> 0]

\* The n bytes of the number d, least significant first.
Pack(d, n) == [i \in 1..n |-> Digit(d, 2 * i - 1) + Radix * Digit(d, 2 * i)]

Record(t, g, high, low) ==
    [type_id |-> t, group_id |-> g, instance_high |-> high, instance_low |-> low]

RecA == Record(Hex(<<10,10,11,11,12,12,13,13>>), Hex(<<1,1,2,2,3,3,4,4>>),
               Hex(<<9,9,10,10,11,11,12,12>>), Hex(<<5,5,6,6,7,7,8,8>>))

RecMax == Record(Hex(<<15,15,15,15,15,15,15,15>>), Hex(<<15,15,15,15,15,15,15,15>>),
                 Hex(<<15,15,15,15,15,15,15,15>>), Hex(<<15,15,15,15,15,15,15,15>>))

RecLow == Record(Hex(<<0,0,11,2,13,8,8,2>>), <<>>, <<>>, Hex(<<1,2,3,4,5,6,7,8>>))

\* a hole: type and group zero, instance bits set
RecHole == Record(<<>>, <<>>, Hex(<<1>>), Hex(<<2>>))

RecordPool == {RecA, RecMax, RecLow, RecHole}

RecordSeqs == UNION {[1..n -> RecordPool] : n \in 0..MaxRecords}

MagicDBPF == <<68, 66, 80, 70>>

MagicXDBF == <<88, 68, 66, 70>>

HugeU32 == Hex(<<15,15,15,15,15,15,15,15>>)

V2RecordBytes(rec) ==
    Pack(rec.type_id, 4) \o Pack(rec.group_id, 4) \o Pack(rec.instance_high, 4)
        \o Pack(rec.instance_low, 4) \o Zeros(INDEX_ENTRY_SIZE - 16)

V1RecordBytes(rec) ==
    Pack(rec.type_id, 4) \o Pack(rec.group_id, 4) \o Pack(rec.instance_low, 4)
        \o Pack(rec.instance_high, 4) \o Zeros(RESOURCE_KEY_SIZE)

RECURSIVE ConcatV2(_, _)
ConcatV2(recs, i) ==
    IF i > Len(recs) THEN <<>> ELSE V2RecordBytes(recs[i]) \o ConcatV2(recs, i + 1)

RECURSIVE ConcatV1(_, _)
ConcatV1(recs, i) ==
    IF i > Len(recs) THEN <<>> ELSE V1RecordBytes(recs[i]) \o ConcatV1(recs, i + 1)

HeaderStart(d) == d.magic \o Pack(BigOfInt(d.major), 2) \o Pack(BigOfInt(d.minor), 2)

V2FileBytes(d) ==
    HeaderStart(d) \o Zeros(HEADER_INDEX_COUNT_OFFSET - 8) \o Pack(d.count, 4)
        \o Zeros(HEADER_INDEX_OFFSET_OFFSET - HEADER_INDEX_COUNT_OFFSET - 4)
        \o Pack(d.index_offset, 4)
        \o Zeros(HEADER_SIZE - HEADER_INDEX_OFFSET_OFFSET - 4)
        \o Zeros(d.gap) \o Pack(<<>>, 4) \o ConcatV2(d.recs, 1)

V1FileBytes(d) ==
    HeaderStart(d) \o Zeros(TestV1CountOffset - 8) \o Pack(d.count, 4)
        \o Zeros(TestV1TableOffset - TestV1CountOffset - 4)
        \o ConcatV1(d.recs, 1)

FileBytes(d) ==
    LET full == IF d.layout = "v1" THEN V1FileBytes(d) ELSE V2FileBytes(d)
    IN  SubSeq(full, 1, Max(0, Len(full) - d.cut))

Description(layout, magic, major, minor, count, index_offset, gap, recs, cut) ==
    [layout |-> layout, magic |-> magic, major |-> major, minor |-> minor,
     count |-> count, index_offset |-> index_offset, gap |-> gap,
     recs |-> recs, cut |-> cut]

DeclaredCounts == {BigOfInt(n) : n \in 0..(MaxRecords + 1)} \cup {HugeU32}

\* declared index offset and bytes really left between header and index
OffsetsAndGaps ==
    {<<BigOfInt(0), 0>>, <<BigOfInt(HEADER_SIZE), 0>>, <<BigOfInt(HEADER_SIZE + 4), 4>>,
     <<BigOfInt(HEADER_SIZE + 4), 0>>, <<HugeU32, 4>>}

TailCuts == {0, 10, 30}

\* version 2 files: every declared count and offset, whole and cut short
V2Descriptions ==
    {Description("v2", MagicDBPF, DBPF_VERSION_2, minor, count, og[1], og[2], recs, cut) :
        minor \in {0, 1}, count \in DeclaredCounts, og \in OffsetsAndGaps,
        recs \in RecordSeqs, cut \in TailCuts}

\* version 1 files, written as test_parse_package_file_v1 writes them
V1Descriptions ==
    {Description("v1", MagicDBPF, DBPF_VERSION_1, 0, count, <<>>, 0, recs, cut) :
        count \in DeclaredCounts, recs \in RecordSeqs, cut \in TailCuts}

\* the length of a version 2 file with one record
OneRecordFileSize == HEADER_SIZE + 4 + 4 + INDEX_ENTRY_SIZE

\* other magics and major versions, and files that end inside the header
HeaderDescriptions ==
    {Description("v2", magic, major, 0, BigOfInt(1), BigOfInt(HEADER_SIZE + 4), 4,
                 <<RecA>>, OneRecordFileSize - keep) :
        magic \in {MagicDBPF, MagicXDBF}, major \in {0, 1, 2, 3, 258},
        keep \in {0, 3, 4, 6, 8, 12, 40, 70, HEADER_SIZE, OneRecordFileSize}}

FileDescriptions == V2Descriptions \cup V1Descriptions \cup HeaderDescriptions

NoFile == Description("none", <<>>, 0, 0, <<>>, <<>>, 0, <<>>, 0)

PathOrdinary == <<"m", "o", "d", "s", "/", "a", ".", "p", "a", "c", "k", "a", "g", "e">>

PathV20 == <<"m", "o", "d", "s", "/", "t", "e", "s", "t", "_", "v", "2", "_", "0", "_", "c", "o", "r", "r", "e", "c", "t", "e", "d", ".", "p", "a", "c", "k", "a", "g", "e">>

PathV21 == <<"t", "e", "s", "t", "_", "v", "2", "_", "1", "_", "c", "o", "r", "r", "e", "c", "t", "e", "d", ".", "p", "a", "c", "k", "a", "g", "e">>

PathDebug == <<"d", "e", "b", "u", "g", "_", "t", "e", "s", "t", "_", "v", "2", ".", "p", "a", "c", "k", "a", "g", "e">>

PathMalformed == <<"m", "o", "d", "s", "/", "m", "a", "l", "f", "o", "r", "m", "e", "d", ".", "p", "a", "c", "k", "a", "g", "e">>

PathsToParse ==
    {PathOrdinary, PathV20, PathV21, PathDebug, PathMalformed,
     NameInvalidMagic, NameDummy}

InitParse ==
    /\ AggIdle
    /\ ParIdle
    /\ BatchIdle
    /\ ExtraIdle
    /\ path \in PathsToParse
    /\ \/ /\ fileExists = TRUE
          /\ desc \in FileDescriptions
       \/ /\ fileExists = FALSE
          /\ desc = NoFile
    /\ content = IF fileExists THEN FileBytes(desc) ELSE <<>>
    /\ ioFault = NoFault
    /\ parsePc = "ready"
    /\ outcome = <<>>

ParsePackageFile ==
    /\ parsePc = "ready"
    /\ outcome' = parse_package_file(path, fileExists, content, ioFault)
    /\ parsePc' = "parsed"
    /\ UNCHANGED <<path, fileExists, content, desc, ioFault, aggVars, parVars, batchVars, extraVars>>

NextParse == ParsePackageFile

SpecParse == InitParse /\ [][NextParse]_vars

(***************************************************************************)
(* The parser on a system that may fail the open, a read or a seek, and on *)
(* paths with another extension.                                           *)
(***************************************************************************)
\* the requests a parse of MaxRecords records makes of the reader: magic,
\* version, header, seek to the end, seek to the index, index type, records
MaxRequests == 6 + MaxRecords

\* no failure, one failing request, or every request from one on
Faults ==
    {NoFault} \cup {[first |-> k, last |-> k, map |-> "off"] : k \in 0..MaxRequests}
              \cup {[first |-> k, last |-> MaxRequests, map |-> "off"] :
                        k \in 0..MaxRequests}

PathNoExtension == <<"m", "o", "d", "s", "/", "a", ".", "t", "x", "t">>

PathUpperExtension == <<"m", "o", "d", "s", "/", "B", ".", "P", "A", "C", "K", "A", "G", "E">>

PathsToOpen == PathsToParse \cup {PathNoExtension, PathUpperExtension}

\* whole and cut version 2 files with the index 4 bytes after the header,
\* version 1 files, and the files of other magics and versions
DescriptionsToOpen ==
    {Description("v2", MagicDBPF, DBPF_VERSION_2, 0, count, BigOfInt(HEADER_SIZE + 4), 4,
                 recs, cut) :
        count \in {BigOfInt(0), HugeU32}, recs \in RecordSeqs, cut \in {0, 10}}
    \cup {Description("v1", MagicDBPF, DBPF_VERSION_1, 0, BigOfInt(Len(recs)), <<>>, 0,
                      recs, 0) : recs \in RecordSeqs}
    \cup HeaderDescriptions

InitIO ==
    /\ AggIdle
    /\ ParIdle
    /\ BatchIdle
    /\ ExtraIdle
    /\ path \in PathsToOpen
    /\ \/ /\ fileExists = TRUE
          /\ desc \in DescriptionsToOpen
       \/ /\ fileExists = FALSE
          /\ desc = NoFile
    /\ content = IF fileExists THEN FileBytes(desc) ELSE <<>>
    /\ ioFault \in Faults
    /\ parsePc = "ready"
    /\ outcome = <<>>

SpecIO == InitIO /\ [][NextParse]_vars

(***************************************************************************)
(* The index loops under every declared count and every fault: files of an *)
(* ordinary name with a well placed table.  A call that was made runs: the *)
(* interpreter goes on with it until it returns or raises.                 *)
(***************************************************************************)
\* n records, by turns RecA and RecLow
FirstRecords(n) == [i \in 1..n |-> IF i % 2 = 1 THEN RecA ELSE RecLow]

LoopDescriptions ==
    {Description("v2", MagicDBPF, DBPF_VERSION_2, 0, count, BigOfInt(HEADER_SIZE + 4), 4,
                 FirstRecords(n), cut) :
        count \in DeclaredCounts, n \in 0..MaxRecords, cut \in {0, 10}}
    \cup {Description("v1", MagicDBPF, DBPF_VERSION_1, 0, count, <<>>, 0,
                      FirstRecords(n), 0) :
             count \in DeclaredCounts, n \in 0..MaxRecords}

InitLoop ==
    /\ AggIdle
    /\ ParIdle
    /\ BatchIdle
    /\ ExtraIdle
    /\ path = PathOrdinary
    /\ fileExists = TRUE
    /\ desc \in LoopDescriptions
    /\ content = FileBytes(desc)
    /\ ioFault \in Faults
    /\ parsePc = "ready"
    /\ outcome = <<>>

\* the step by which a call ends: the only step of NextParse, which is
\* possible exactly while the call has not ended
CallEnds == parsePc = "ready" /\ parsePc' = "parsed"

SpecLoopFair == InitLoop /\ [][NextParse]_vars /\ WF_parsePc(CallEnds)

(***************************************************************************)
(* The parse with memory mapping switched on: every fault of above, with   *)
(* the mapping off, made, or refused.                                      *)
(***************************************************************************)
MapFaults == {[f EXCEPT !.map = m] : f \in Faults, m \in {"off", "maps", "fails"}}

InitMap ==
    /\ AggIdle
    /\ ParIdle
    /\ BatchIdle
    /\ ExtraIdle
    /\ path \in PathsToOpen
    /\ \/ /\ fileExists = TRUE
          /\ desc \in DescriptionsToOpen
       \/ /\ fileExists = FALSE
          /\ desc = NoFile
    /\ content = IF fileExists THEN FileBytes(desc) ELSE <<>>
    /\ ioFault \in MapFaults
    /\ parsePc = "ready"
    /\ outcome = <<>>

SpecMap == InitMap /\ [][NextParse]_vars

(***************************************************************************)
(* The batch scan: the for statement of detect_conflicts over the package  *)
(* files of a directory, each parsed by parse_package_file.                *)
(***************************************************************************)
MaxBatch == 3

BatchLetters == <<"a", "b", "c", "d", "e", "f">>

\* the path of the i-th file: mods/a.package, mods/b.package, ...
BatchPath(i) == [PathOrdinary EXCEPT ![6] = BatchLetters[i]]

\* a version 2 file with its index 4 bytes after the header, and what is
\* left of it when it is cut to keep bytes
V2File(recs, keep) ==
    Description("v2", MagicDBPF, DBPF_VERSION_2, 0, BigOfInt(Len(recs)),
                BigOfInt(HEADER_SIZE + 4), 4, recs,
                HEADER_SIZE + 8 + INDEX_ENTRY_SIZE * Len(recs) - keep)

\* whole files, files cut inside the header, a wrong magic, a version 1 file
BatchDescriptions ==
    {V2File(<<RecA>>, OneRecordFileSize),
     V2File(<<RecA, RecLow>>, OneRecordFileSize + INDEX_ENTRY_SIZE),
     V2File(<<RecA>>, 40),
     V2File(<<RecA>>, 70),
     Description("v2", MagicXDBF, DBPF_VERSION_2, 0, BigOfInt(1),
                 BigOfInt(HEADER_SIZE + 4), 4, <<RecA>>, 0),
     Description("v1", MagicDBPF, DBPF_VERSION_1, 0, BigOfInt(1), <<>>, 0,
                 <<RecLow>>, 0)}

InitBatch ==
    /\ AggIdle
    /\ ParIdle
    /\ ParseIdle
    /\ ExtraIdle
    /\ \E n \in 0..MaxBatch :
          \E descs \in [1..n -> BatchDescriptions] :
              batchFiles = [i \in 1..n |->
                              [file_path |-> BatchPath(i), desc |-> descs[i],
                               content |-> FileBytes(descs[i])]]
    /\ batchPc = "loop"
    /\ batchPos = 0
    /\ batchOutcomes = <<>>
    /\ processed_count = 0
    /\ error_count = 0
    /\ resource_count = 0
    /\ scanResourceMap = EmptyIndex
    /\ conflicts = <<>>

\* mod_conflict_detector.py 64-86: one pass of the for statement.
ProcessFile ==
    /\ batchPc = "loop"
    /\ batchPos < Len(batchFiles)
    /\ LET file == batchFiles[batchPos + 1]
           out == parse_package_file(file.file_path, TRUE, file.content, NoFault)
           merged == MergeResources("inline", scanResourceMap, out.resources,
                                    file.file_path)
       IN  /\ batchOutcomes' = Append(batchOutcomes, out)
           /\ IF out.exc = "none"
              THEN /\ processed_count' = processed_count + 1
                   /\ resource_count' = resource_count + Cardinality(out.resources)
                   /\ scanResourceMap' = [merged EXCEPT !.raised = FALSE]
                   /\ error_count' = IF merged.raised THEN error_count + 1
                                                      ELSE error_count
              ELSE /\ error_count' = error_count + 1
                   /\ UNCHANGED <<processed_count, resource_count, scanResourceMap>>
    /\ batchPos' = batchPos + 1
    /\ UNCHANGED <<batchFiles, batchPc, conflicts, aggVars, parVars, parseVars, extraVars>>

\* mod_conflict_detector.py 89: the loop is over, the conflicts are filtered.
FinishScan ==
    /\ batchPc = "loop"
    /\ batchPos = Len(batchFiles)
    /\ conflicts' = FilterInline(scanResourceMap.map)
    /\ batchPc' = "done"
    /\ UNCHANGED <<batchFiles, batchPos, batchOutcomes, processed_count, error_count,
                   resource_count, scanResourceMap, aggVars, parVars, parseVars, extraVars>>

NextBatch == ProcessFile \/ FinishScan

\* mod_conflict_detector.py 763-770, the loop of the GUI: the mapping from
\* file path to key set, with an entry for each file, in the order of the
\* files, whose parse returned a set that is not empty
RECURSIVE GuiResourceMap(_, _, _, _)
GuiResourceMap(scanned, outcomes, i, rmap) ==
    IF i > Len(scanned) THEN rmap
    ELSE GuiResourceMap(scanned, outcomes, i + 1,
             IF outcomes[i].exc = "none" /\ outcomes[i].resources # {}
             THEN [order |-> Append(rmap.order, scanned[i].file_path),
                   sets  |-> rmap.sets @@
                                 (scanned[i].file_path :> outcomes[i].resources)]
             ELSE rmap)

SpecBatch == InitBatch /\ [][NextBatch]_vars

(***************************************************************************)
(* Properties of the aggregation.                                          *)
(***************************************************************************)
\* The paths of the input mapping whose set holds key k.
FilesWith(k) == {p \in Range(files) : k \in keysOf[p]}

\* The paths of the input mapping whose set holds some key of type t.
FilesWithType(t) == {p \in Range(files) : \E k \in keysOf[p] : k.type_id = t}

TypeIds == {k.type_id : k \in Keys}

\* The subsequence of the input order made of the paths in S.
InInputOrder(S) ==
    LET Member(p) == p \in S
    IN  SelectSeq(files, Member)

\* C1: in full-key mode a key is in the returned map iff at least two distinct
\* paths hold it, and its list holds exactly the paths whose set holds it.
C1_FullKeyConflicts ==
    (aggPc = "done" /\ aggCall = "full") =>
        /\ ~aggResult.raised
        /\ DOMAIN aggResult.map \subseteq Keys
        /\ \A k \in Keys :
              (k \in DOMAIN aggResult.map) <=> (Cardinality(FilesWith(k)) >= 2)
        /\ \A k \in DOMAIN aggResult.map :
              Range(aggResult.map[k]) = FilesWith(k)

\* C1 witness: a call returned a key held by two files and dropped a key held by one.
C1_Witness ==
    /\ aggPc = "done" /\ aggCall = "full"
    /\ \E k \in DOMAIN aggResult.map : Cardinality(FilesWith(k)) = 2
    /\ \E k \in Keys : Cardinality(FilesWith(k)) = 1

ExampleFiles == <<"A", "B", "C">>

ExampleSets == ("A" :> {K1, K2}) @@ ("B" :> {K2, K3}) @@ ("C" :> {K1})

ExampleConflicts == (K1 :> <<"A", "C">>) @@ (K2 :> <<"A", "B">>)

\* C2: every list of the result holds each path at most once, in the order in
\* which the files were first seen; and A={K1,K2}, B={K2,K3}, C={K1} in the
\* order A, B, C give exactly {K1: [A,C], K2: [A,B]}, without K3.
C2_FirstSeenOrderNoDuplicates ==
    (aggPc = "done" /\ aggCall \in {"full", "by_type"}) =>
        /\ \A k \in DOMAIN aggResult.map :
              /\ \A i, j \in 1..Len(aggResult.map[k]) :
                    i # j => aggResult.map[k][i] # aggResult.map[k][j]
              /\ aggResult.map[k] =
                    InInputOrder(IF aggCall = "full" THEN FilesWith(k)
                                                     ELSE FilesWithType(k))
        /\ (aggCall = "full" /\ files = ExampleFiles /\ keysOf = ExampleSets) =>
              /\ aggResult.map = ExampleConflicts
              /\ K3 \notin DOMAIN aggResult.map

\* C2 witness: the call on the example mapping has returned.
C2_Witness ==
    /\ aggPc = "done" /\ aggCall = "full"
    /\ files = ExampleFiles /\ keysOf = ExampleSets
    /\ DOMAIN aggResult.map = {K1, K2}

\* Two conflict maps with the same keys and, per key, the same set of paths.
SameConflicts(a, b) ==
    /\ DOMAIN a = DOMAIN b
    /\ \A k \in DOMAIN a : Range(a[k]) = Range(b[k])

Aggregate(call, order, sets) ==
    CASE call = "full"    -> find_conflicts(order, sets, FALSE)
      [] call = "by_type" -> find_conflicts(order, sets, TRUE)
      [] call = "inline"  -> detect_conflicts_merge(order, sets)

\* The files of the input mapping in one fixed order, that of PathNames.
ReferenceOrder ==
    LET Member(p) == p \in Range(files)
    IN  SelectSeq(PathNames, Member)

\* C3: whatever the order in which the files of one mapping are processed,
\* find_conflicts and the merge loop of detect_conflicts give the same
\* conflicting keys and, per key, the same set of paths.  Every order is an
\* initial state and is compared with the same mapping taken in
\* ReferenceOrder; SameConflicts is an equivalence, so any two orders agree.
C3_OrderIndependent ==
    (aggPc = "done") =>
        LET other == Aggregate(aggCall, ReferenceOrder, keysOf)
        IN  /\ other.raised = aggResult.raised
            /\ SameConflicts(other.map, aggResult.map)

\* C3 witness: three files that share a key were processed in the reverse of
\* the reference order.
C3_Witness ==
    /\ aggPc = "done" /\ aggCall \in {"full", "inline"}
    /\ Len(files) = 3
    /\ \A i \in 1..3 : files[i] = ReferenceOrder[4 - i]
    /\ \E k \in DOMAIN aggResult.map : Cardinality(FilesWith(k)) = 3

\* C5: with group_by_type a type_id is a key of the result iff at least two
\* distinct files hold some key of that type, and its list holds each such
\* path exactly once, also when one file has several keys of the type.
C5_GroupByType ==
    (aggPc = "done" /\ aggCall = "by_type") =>
        /\ ~aggResult.raised
        /\ DOMAIN aggResult.map \subseteq TypeIds
        /\ \A t \in TypeIds :
              (t \in DOMAIN aggResult.map) <=> (Cardinality(FilesWithType(t)) >= 2)
        /\ \A t \in DOMAIN aggResult.map :
              /\ Range(aggResult.map[t]) = FilesWithType(t)
              /\ Len(aggResult.map[t]) = Cardinality(FilesWithType(t))

\* C5 witness: a file with two keys of one type is listed under that type.
C5_Witness ==
    /\ aggPc = "done" /\ aggCall = "by_type"
    /\ \E p \in Range(files) :
          /\ {K1, K2} \subseteq keysOf[p]
          /\ K1.type_id \in DOMAIN aggResult.map
          /\ \E i \in 1..Len(aggResult.map[K1.type_id]) :
                aggResult.map[K1.type_id][i] = p

\* C6: a call of find_conflicts, in either mode and on every mapping (the
\* empty one and those with empty key sets too), raises nothing and leaves
\* the mapping and every key set as they were.
C6_NeverRaisesInputUnchanged ==
    [][(aggPc = "ready" /\ aggPc' = "done" /\ aggCall' \in {"full", "by_type"}) =>
          /\ ~aggResult'.raised
          /\ files' = files
          /\ keysOf' = keysOf]_vars

\* C6 witness: a call has returned on a mapping with a file that has no keys
\* next to a file that has some.
C6_Witness ==
    /\ aggPc = "done" /\ aggCall \in {"full", "by_type"}
    /\ \E p, q \in Range(files) : keysOf[p] = {} /\ keysOf[q] # {}
    /\ ~aggResult.raised

(***************************************************************************)
(* Properties of the parallel scan.                                        *)
(***************************************************************************)
AllMerged == pending = {} /\ inbox = <<>> /\ workerSets # <<>>

\* C4: with the files parsed by parallel workers and one collector merging
\* the private results one at a time in finishing order, without any lock,
\* the conflicts after the last merge (keys, and set of paths per key) are
\* those of one sequential pass over all files, for every interleaving.
C4_ParallelEqualsSequential ==
    AllMerged =>
        LET sequential == detect_conflicts_merge(package_files, workerSets)
        IN  /\ ~resource_map.raised
            /\ ~sequential.raised
            /\ SameConflicts(FilterInline(resource_map.map), sequential.map)

\* C4 witness: all results are merged, and a conflict lists its files in an
\* order other than that of the sequential pass.
C4_Witness ==
    /\ AllMerged
    /\ \E k \in DOMAIN resource_map.map :
          /\ Len(resource_map.map[k]) >= 2
          /\ resource_map.map[k] #
                detect_conflicts_merge(package_files, workerSets).map[k]

(***************************************************************************)
(* Properties of the parser.  The expected values are computed from the    *)
(* bytes by the definitions of the format, not by the parser's operators.  *)
(***************************************************************************)
\* The value of the bytes b as a little-endian number: sum of b[i] * 256^(i-1).
RECURSIVE LittleEndianValue(_)
LittleEndianValue(b) ==
    IF b = <<>> THEN <<>>
    ELSE BigAdd(BigOfInt(b[1]), BigMul(BigOfInt(256), LittleEndianValue(Tail(b))))

\* x | y for two hex digits
DigitOr(x, y) ==
    LET Bit(n, i) == (n \div (2 ^ i)) % 2
        Weight(i) == IF Bit(x, i) = 1 \/ Bit(y, i) = 1 THEN 2 ^ i ELSE 0
    IN  Weight(0) + Weight(1) + Weight(2) + Weight(3)

\* a | b
BigOr(a, b) ==
    Norm([i \in 1..Max(Len(a), Len(b)) |-> DigitOr(Digit(a, i), Digit(b, i))])

\* a << 32: eight hex digits to the left
ShiftLeft32(a) == IF a = <<>> THEN <<>> ELSE Zeros(8) \o a

\* (instance_high << 32) | instance_low
InstanceId(instance_high, instance_low) == BigOr(ShiftLeft32(instance_high), instance_low)

Parsed == parsePc = "parsed"

\* The full records the v2 reader went through, as they lie in the file.
V2EntriesRead ==
    LET start == Clamp(desc.index_offset) + 4
        At(i) == Slice(content, start + INDEX_ENTRY_SIZE * i,
                       start + INDEX_ENTRY_SIZE * (i + 1))
    IN  {At(i) : i \in {j \in 0..(outcome.index_reads - 1) :
                            Len(At(j)) = INDEX_ENTRY_SIZE}}

\* The key the format gives a v2 record, none for a hole.
V2KeysOfEntry(e) ==
    LET type_id == LittleEndianValue(Slice(e, 0, 4))
        group_id == LittleEndianValue(Slice(e, 4, 8))
    IN  IF type_id = <<>> /\ group_id = <<>>
        THEN {}
        ELSE {ResourceKey(type_id, group_id,
                          InstanceId(LittleEndianValue(Slice(e, 8, 12)),
                                     LittleEndianValue(Slice(e, 12, 16))))}

Instance99AABBCC55667788 == Hex(<<9,9,10,10,11,11,12,12, 5,5,6,6,7,7,8,8>>)

\* C7: every key the v2 reader emits has the type and the group of its record
\* and the instance (instance_high << 32) | instance_low, below 2^64; the
\* record with high 0x99AABBCC and low 0x55667788 gives 0x99AABBCC55667788.
C7_V2InstanceDecoding ==
    (Parsed /\ outcome.exc = "none" /\ outcome.layout = "v2") =>
        /\ outcome.resources = UNION {V2KeysOfEntry(e) : e \in V2EntriesRead}
        /\ \A k \in outcome.resources :
              /\ Len(k.instance_id) <= 16
              /\ Len(k.type_id) <= 8
              /\ Len(k.group_id) <= 8
        /\ (V2RecordBytes(RecA) \in V2EntriesRead) =>
              ResourceKey(RecA.type_id, RecA.group_id, Instance99AABBCC55667788)
                  \in outcome.resources

\* C7 witness: the v2 reader has emitted the key of the record with high
\* 0x99AABBCC and low 0x55667788, next to the key with instance 2^64 - 1.
C7_Witness ==
    /\ Parsed /\ outcome.exc = "none" /\ outcome.layout = "v2"
    /\ V2RecordBytes(RecA) \in V2EntriesRead
    /\ \E k \in outcome.resources : k.instance_id = Instance99AABBCC55667788
    /\ \E k \in outcome.resources : k.instance_id = Zeros(0) \o [i \in 1..16 |-> 15]

\* The key the format gives a record of a description.
KeyOfRecord(rec) ==
    ResourceKey(rec.type_id, rec.group_id,
                InstanceId(rec.instance_high, rec.instance_low))

\* A version 1 file as the format has it: magic, major 1, the count of its
\* records at the count offset, the records at the table offset, nothing cut.
WellFormedV1 ==
    /\ fileExists
    /\ desc.layout = "v1"
    /\ desc.magic = MagicDBPF
    /\ desc.major = DBPF_VERSION_1
    /\ desc.count = BigOfInt(Len(desc.recs))
    /\ desc.cut = 0

\* C8: parse_package_file on a well-formed version 1 file returns, without
\* raising, the set with the key (type, group, (high << 32) | low) of each
\* record; two distinct records give two keys.  (Stated for an ordinary
\* file name.)
C8_V1FileParsed ==
    (Parsed /\ path = PathOrdinary /\ WellFormedV1) =>
        /\ outcome.exc = "none"
        /\ outcome.resources = {KeyOfRecord(desc.recs[i]) : i \in 1..Len(desc.recs)}

IsHole(rec) == rec.type_id = <<>> /\ rec.group_id = <<>>

\* A version 2 file of a 96 byte header that declares 2 entries and index
\* offset 96, then the index type and two records with distinct non-zero keys.
V2IndexRightAfterHeader ==
    /\ fileExists
    /\ desc.layout = "v2"
    /\ desc.magic = MagicDBPF
    /\ desc.major = DBPF_VERSION_2
    /\ desc.count = BigOfInt(2)
    /\ desc.index_offset = BigOfInt(HEADER_SIZE)
    /\ desc.gap = 0
    /\ desc.cut = 0
    /\ Len(desc.recs) = 2
    /\ ~IsHole(desc.recs[1]) /\ ~IsHole(desc.recs[2])
    /\ KeyOfRecord(desc.recs[1]) # KeyOfRecord(desc.recs[2])

\* C9: parse_package_file on such a file returns exactly the two keys decoded
\* from its two records.  (Stated for an ordinary file name.)
C9_V2IndexAfterHeaderParsed ==
    (Parsed /\ path = PathOrdinary /\ V2IndexRightAfterHeader) =>
        /\ outcome.exc = "none"
        /\ outcome.resources = {KeyOfRecord(desc.recs[1]), KeyOfRecord(desc.recs[2])}

\* The file starts with the magic and holds the whole version field.
HasMagicAndVersion ==
    /\ fileExists
    /\ Slice(content, 0, 4) = DBPF_HEADER_MAGIC
    /\ Len(content) >= 8

MajorInFile == LittleEndianValue(Slice(content, 4, 6))

\* C10: for every file that starts with the magic the layout follows from
\* version_major alone: 2 gives the v2 reader, 1 the v1 reader, any other
\* value a ValueError (unsupported version) with no index record read.
C10_DispatchOnMajorVersion ==
    (Parsed /\ HasMagicAndVersion) =>
        /\ (MajorInFile = BigOfInt(DBPF_VERSION_2)) => outcome.layout = "v2"
        /\ (MajorInFile = BigOfInt(DBPF_VERSION_1)) => outcome.layout = "v1"
        /\ (MajorInFile \notin {BigOfInt(DBPF_VERSION_1), BigOfInt(DBPF_VERSION_2)}) =>
              /\ outcome.exc = "ValueError"
              /\ outcome.cause = "Unsupported DBPF version"
              /\ outcome.layout = "none"
              /\ outcome.index_reads = 0

\* The file exists and its first 4 bytes are not the magic.
WrongMagic == fileExists /\ Slice(content, 0, 4) # DBPF_HEADER_MAGIC

\* The exception is a ValueError whose text holds the phrase: the text of a
\* re-raised exception is "<msg> <path>: <cause>".
IsInvalidFormat(out, phrase) ==
    out.exc = "ValueError" /\ (out.msg = phrase \/ out.cause = phrase)

\* C11: for every file whose first 4 bytes differ from 'DBPF',
\* parse_package_file raises a ValueError whose message holds 'Invalid package
\* file format', and up to then the file was asked for nothing but its first
\* 4 bytes: no version read, no seek, no index-table read.
C11_InvalidMagicBeforeIndex ==
    (Parsed /\ WrongMagic) =>
        /\ IsInvalidFormat(outcome, "Invalid package file format")
        /\ outcome.index_reads = 0
        /\ \A i \in 1..Len(outcome.log) : outcome.log[i] = <<"read", 0, 4>>

\* The file has the magic and major version 2 as far as its bytes go and is
\* shorter than the fixed header.
TruncatedV2Header ==
    /\ fileExists
    /\ desc.magic = MagicDBPF
    /\ desc.major = DBPF_VERSION_2
    /\ Slice(content, 0, 4) = DBPF_HEADER_MAGIC
    /\ Len(content) < HEADER_SIZE

\* C12: for every file with the magic and major version 2 that is shorter
\* than the 96-byte header, parse_package_file raises a ValueError whose
\* message holds 'Malformed package structure' and returns no key set.
\* (Stated for an ordinary file name.)
C12_TruncatedHeaderRaises ==
    (Parsed /\ path = PathOrdinary /\ TruncatedV2Header) =>
        IsInvalidFormat(outcome, "Malformed package structure")

\* C13: no set returned by parse_package_file, for any file of either layout
\* and any file name, holds a key with type_id = 0 and group_id = 0, whatever
\* the instance bits of the records on disk.
C13_NoHoleKeys ==
    Parsed => \A k \in outcome.resources : ~(k.type_id = <<>> /\ k.group_id = <<>>)

\* C13 witness: the v2 reader went through a record with type 0, group 0 and
\* instance bits set, and returned the key of another record.
C13_Witness ==
    /\ Parsed /\ outcome.exc = "none" /\ outcome.layout = "v2"
    /\ V2RecordBytes(RecHole) \in V2EntriesRead
    /\ outcome.resources # {}

\* The file has a whole version 2 header whose index offset is in range,
\* 96 < index_offset < file_size - 4.
V2IndexInRange ==
    /\ fileExists
    /\ desc.layout = "v2"
    /\ Slice(content, 0, 4) = DBPF_HEADER_MAGIC
    /\ Len(content) >= HEADER_SIZE
    /\ MajorInFile = BigOfInt(DBPF_VERSION_2)
    /\ Clamp(desc.index_offset) > HEADER_SIZE
    /\ Clamp(desc.index_offset) < Len(content) - 4

\* floor((file_size - index_offset - 4) / 28)
MaxReadableEntries == (Len(content) - Clamp(desc.index_offset) - 4) \div INDEX_ENTRY_SIZE

\* No request made of the file reaches beyond its last byte.
ReadsWithinFile ==
    \A i \in 1..Len(outcome.log) :
        LET op == outcome.log[i]
        IN  IF op[1] = "read" THEN op[2] + op[3] <= Len(content)
                              ELSE op[2] <= Len(content)

\* C14: for every v2 file with an in-range index offset whose declared entry
\* count exceeds floor((file_size - index_offset - 4) / 28), the call returns
\* without a fault, goes through exactly that many entries and never asks
\* the file for bytes beyond file_size.
C14_CountCappedByFileSize ==
    (Parsed /\ V2IndexInRange /\ Clamp(desc.count) > MaxReadableEntries) =>
        /\ outcome.exc = "none"
        /\ outcome.layout = "v2"
        /\ outcome.index_reads = MaxReadableEntries
        /\ ReadsWithinFile

\* The file holds the three header fields the v2 reader decodes (68 bytes),
\* has the magic and major version 2, and its index offset is not strictly
\* between the header size and file_size - 4.
V2IndexOutOfRange ==
    /\ fileExists
    /\ desc.layout = "v2"
    /\ Slice(content, 0, 4) = DBPF_HEADER_MAGIC
    /\ Len(content) >= HEADER_INDEX_OFFSET_OFFSET + 4
    /\ MajorInFile = BigOfInt(DBPF_VERSION_2)
    /\ ~(/\ Clamp(LittleEndianValue(Slice(content, HEADER_INDEX_OFFSET_OFFSET,
                                          HEADER_INDEX_OFFSET_OFFSET + 4))) > HEADER_SIZE
         /\ Clamp(LittleEndianValue(Slice(content, HEADER_INDEX_OFFSET_OFFSET,
                                          HEADER_INDEX_OFFSET_OFFSET + 4))) < Len(content) - 4)

\* C15: for every v2 file whose index offset is at or before the end of the
\* header or at or beyond file_size - 4, parse_package_file returns the empty
\* set without raising, records a warning and reads no index record.
C15_IndexOutOfRangeEmpty ==
    (Parsed /\ V2IndexOutOfRange) =>
        /\ outcome.exc = "none"
        /\ outcome.resources = {}
        /\ outcome.warned
        /\ outcome.index_reads = 0
        /\ \A i \in 1..Len(outcome.log) :
              outcome.log[i][1] = "read" => outcome.log[i][2] < HEADER_SIZE

(***************************************************************************)
(* Properties of the parser on a system that may fail requests.            *)
(***************************************************************************)
\* the texts of struct.error when the header is shorter than a field
ShortReadTexts ==
    {"unpack requires a buffer of 4 bytes", "unpack_from requires a buffer",
     "unpack requires a buffer"}

\* C16: whatever the path, the file and the failing requests, an exception
\* that leaves parse_package_file is a FileNotFoundError, a ValueError or an
\* IOError; a struct.error from a short read, the invalid-magic error and
\* the unsupported-version error all leave as ValueError.
C16_ThreeFaultKinds ==
    Parsed =>
        /\ outcome.exc \in {"none", "FileNotFoundError", "ValueError", "IOError"}
        /\ (outcome.cause \in ShortReadTexts) =>
              IsInvalidFormat(outcome, "Malformed package structure")
        /\ (\/ outcome.cause \in {"Invalid package file format", "Unsupported DBPF version"}
            \/ outcome.msg \in {"Invalid package file format", "Unsupported DBPF version"}) =>
              outcome.exc = "ValueError"

\* C16 witness: the version field was cut short, struct.unpack raised
\* struct.error and the call ended with ValueError.
C16_Witness ==
    /\ Parsed
    /\ Len(content) \in 4..7
    /\ outcome.cause = "unpack requires a buffer of 4 bytes"
    /\ outcome.exc = "ValueError"

\* A read or a seek the reader made of the file raised OSError.
ReaderRequestFailed == \E n \in 1..Len(outcome.log) : Fails(ioFault, n)

\* C17: whenever a read or a seek of the reader fails during a parse, in the
\* header or in the index records, parse_package_file ends with IOError; it
\* never returns a key set after such a failure.
C17_IOFailureSurfaces ==
    (Parsed /\ ReaderRequestFailed) => outcome.exc = "IOError"

\* the path ends in '.package', compared as the code compares it (lower case)
HasPackageExtension == EndsWith(Lower(path), PackageExtension)

\* C18: for every path, a path at which no file exists is rejected with
\* FileNotFoundError and an existing path without the '.package' extension
\* is rejected with a fault, in both cases before any file is opened or read.
C18_FailsFastBeforeIO ==
    (Parsed /\ (~fileExists \/ ~HasPackageExtension)) =>
        /\ outcome.exc # "none"
        /\ ~fileExists => outcome.exc = "FileNotFoundError"
        /\ outcome.opened = 0
        /\ outcome.log = <<>>

\* C19 as stated: an existing path without the '.package' extension is
\* reported with the kind of a missing path, FileNotFoundError.
C19_NoExtensionIsNotFound ==
    (Parsed /\ fileExists /\ ~HasPackageExtension) =>
        outcome.exc = "FileNotFoundError"

\* C19, amended: an existing path without the '.package' extension is
\* reported with ValueError ('Not a package file'), the InvalidFormat kind,
\* before any file is opened; FileNotFoundError is raised only when no file
\* exists at the path.
C19_NoExtensionIsValueError ==
    Parsed =>
        /\ (fileExists /\ ~HasPackageExtension) =>
              /\ outcome.exc = "ValueError"
              /\ outcome.msg = "Not a package file"
              /\ outcome.opened = 0
        /\ outcome.exc = "FileNotFoundError" => ~fileExists

\* C19 witness: a file exists at 'mods/a.txt' and the call ended with
\* ValueError.
C19_Witness ==
    /\ Parsed
    /\ fileExists
    /\ path = PathNoExtension
    /\ outcome.exc = "ValueError"
    /\ outcome.msg = "Not a package file"

(***************************************************************************)
(* Properties of the batch scan.                                           *)
(***************************************************************************)
BatchDone == batchPc = "done"

\* the positions of the files whose parse raised
RaisedAt == {i \in 1..Len(batchOutcomes) : batchOutcomes[i].exc # "none"}

\* The loop went through every file, each file counts once, as processed or
\* as an error, and every key of a file that parsed is listed with its path.
BatchTally ==
    /\ Len(batchOutcomes) = Len(batchFiles)
    /\ processed_count + error_count = Len(batchFiles)
    /\ error_count = Cardinality(RaisedAt)
    /\ \A i \in (1..Len(batchFiles)) \ RaisedAt :
          \A k \in batchOutcomes[i].resources :
              /\ k \in DOMAIN scanResourceMap.map
              /\ batchFiles[i].file_path \in Range(scanResourceMap.map[k])

\* a version 2 file that ends inside its 96-byte header
TruncatedMidHeader(file) ==
    /\ file.desc.layout = "v2"
    /\ file.desc.magic = MagicDBPF
    /\ Len(file.content) > 0
    /\ Len(file.content) < HEADER_SIZE

\* a version 2 file with nothing cut off
WholeV2File(file) ==
    /\ file.desc.layout = "v2"
    /\ file.desc.magic = MagicDBPF
    /\ file.desc.cut = 0

\* C20: in the batch scan a fault of one parse is caught, adds exactly one to
\* error_count and stops no later file from being parsed: after the loop
\* processed_count + error_count is the number of files, error_count is the
\* number of files whose parse raised, and the keys of every other file are
\* in the reverse index; when one file is cut inside its header and all the
\* others are whole, error_count is 1 and the others contribute their keys.
C20_BatchTalliesFaults ==
    BatchDone =>
        /\ BatchTally
        /\ \A j \in 1..Len(batchFiles) :
              (/\ TruncatedMidHeader(batchFiles[j])
               /\ \A i \in (1..Len(batchFiles)) \ {j} : WholeV2File(batchFiles[i])) =>
                  /\ error_count = 1
                  /\ \A i \in (1..Len(batchFiles)) \ {j} :
                        \A n \in 1..Len(batchFiles[i].desc.recs) :
                            LET k == KeyOfRecord(batchFiles[i].desc.recs[n])
                            IN  /\ k \in DOMAIN scanResourceMap.map
                                /\ batchFiles[i].file_path
                                       \in Range(scanResourceMap.map[k])

(***************************************************************************)
(* Properties that compare two calls.                                      *)
(***************************************************************************)
\* what a caller sees of a call: the fault kind and the returned set
Observed(out) == [exc |-> out.exc, resources |-> out.resources]

\* C21: the outcome of parse_package_file, the returned set or the fault
\* kind, depends on the bytes of the file alone: the same bytes under any
\* other name that ends in '.package' give the same outcome, and a second
\* parse of the same file gives the same outcome as the first.
C21_OutcomeDependsOnBytesOnly ==
    (Parsed /\ fileExists) =>
        \A other \in PathsToParse :
            Observed(parse_package_file(other, TRUE, content, NoFault))
                = Observed(outcome)

(***************************************************************************)
(* The directory scanner, scanner.py.                                      *)
(*                                                                         *)
(* The tree on disk has the directory given to the scanner, a directory    *)
(* "sub" in it and a directory "nested" in "sub".  A directory whose       *)
(* listing the operating system refuses is "unreadable".  os.walk is       *)
(* called with its default onerror=None: the walk then ignores a directory *)
(* whose listing fails and goes on with the rest.                          *)
(***************************************************************************)
MaxScanFiles == 2

DirTop == <<>>

DirSub == <<"sub">>

DirNested == <<"sub", "nested">>

\* top-down: every directory is the parent of the next one
ScanDirs == <<DirTop, DirSub, DirNested>>

NamePackage == <<"a", ".", "p", "a", "c", "k", "a", "g", "e">>

NameUpperPackage == <<"B", ".", "P", "A", "C", "K", "A", "G", "E">>

NameText == <<"c", ".", "t", "x", "t">>

NameScript == <<"d", ".", "t", "s", "4", "s", "c", "r", "i", "p", "t">>

NameBackup == <<"e", ".", "p", "a", "c", "k", "a", "g", "e", ".", "b", "a", "k">>

\* the order in which a directory lists its files
ScanNames == <<NamePackage, NameUpperPackage, NameText, NameScript, NameBackup>>

ScriptExtension == <<".", "t", "s", "4", "s", "c", "r", "i", "p", "t">>

\* os.path.join(root, file)
ScanEntry(dir, name) == [dir |-> dir, name |-> name]

ScanEntries == {ScanEntry(d, n) : d \in Range(ScanDirs), n \in Range(ScanNames)}

\* a path that does not exist, a path to a regular file, and the trees;
\* "walk" is the fault the walk itself raises, if any
FileSystems ==
    {[kind |-> k, dirs |-> {}, unreadable |-> {}, files |-> {}, walk |-> "none"] :
        k \in {"missing", "file"}}
    \cup
    {fs \in [kind : {"dir"},
             dirs : {{DirTop}, {DirTop, DirSub}, {DirTop, DirSub, DirNested}},
             unreadable : SUBSET Range(ScanDirs),
             files : {f \in SUBSET ScanEntries : Cardinality(f) <= MaxScanFiles},
             walk : {"none", "PermissionError", "Exception"}] :
        /\ fs.unreadable \subseteq fs.dirs
        /\ \A e \in fs.files : e.dir \in fs.dirs
        /\ fs.walk # "none" => fs.unreadable = {}}

\* Path(directory).is_dir()
IsDir(fs) == fs.kind = "dir"

\* the walk lists directory i: it exists, the walk reached it through its
\* parent and its own listing succeeds
RECURSIVE Listed(_, _)
Listed(fs, i) ==
    /\ ScanDirs[i] \in fs.dirs
    /\ ScanDirs[i] \notin fs.unreadable
    /\ (i = 1 \/ Listed(fs, i - 1))

\* the (root, files) pairs os.walk yields from directory i on
RECURSIVE Walk(_, _)
Walk(fs, i) ==
    IF i > Len(ScanDirs) \/ ~Listed(fs, i) THEN <<>>
    ELSE <<[root  |-> ScanDirs[i],
            files |-> SelectSeq(ScanNames,
                          LAMBDA n : ScanEntry(ScanDirs[i], n) \in fs.files)]>>
         \o Walk(fs, i + 1)

\* the inner loop over the files of one directory, from file j on
RECURSIVE ScanFilesOf(_, _, _, _, _)
ScanFilesOf(root, names, j, include_script_mods, lists) ==
    IF j > Len(names) THEN lists
    ELSE LET file == names[j]
             file_path == ScanEntry(root, file)
         IN  ScanFilesOf(root, names, j + 1, include_script_mods,
                 IF EndsWith(Lower(file), PackageExtension)
                 THEN [lists EXCEPT !.package_files = Append(@, file_path)]
                 ELSE IF include_script_mods /\ EndsWith(Lower(file), ScriptExtension)
                 THEN [lists EXCEPT !.script_files = Append(@, file_path)]
                 ELSE lists)

\* the outer loop over what the walk yields, from pair i on
RECURSIVE ScanWalk(_, _, _, _)
ScanWalk(walked, i, include_script_mods, lists) ==
    IF i > Len(walked) THEN lists
    ELSE ScanWalk(walked, i + 1, include_script_mods,
             ScanFilesOf(walked[i].root, walked[i].files, 1,
                         include_script_mods, lists))

scan_mods_directory(fs, verbose, include_script_mods) ==
    IF ~IsDir(fs)
    THEN [exc |-> "NotADirectoryError", package_files |-> <<>>, printed |-> <<>>]
    ELSE IF fs.walk # "none"
    THEN [exc |-> fs.walk, package_files |-> <<>>,
          printed |-> IF verbose THEN <<"Scanning directory", "error">> ELSE <<>>]
    ELSE LET lists == ScanWalk(Walk(fs, 1), 1, include_script_mods,
                               [package_files |-> <<>>, script_files |-> <<>>])
         IN  [exc |-> "none",
              package_files |-> lists.package_files,
              printed |->
                  IF verbose
                  THEN <<"Scanning directory", "Found package files">>
                       \o (IF include_script_mods
                           THEN <<"Found script mod files">>
                                \o (IF lists.script_files # <<>>
                                    THEN <<"Script mod analysis is not yet supported">>
                                    ELSE <<>>)
                           ELSE <<>>)
                  ELSE <<>>]

InitScan ==
    /\ AggIdle
    /\ ParIdle
    /\ ParseIdle
    /\ BatchIdle
    /\ ReaderIdle
    /\ GuiIdle
    /\ scanFs \in FileSystems
    /\ scanVerbose \in BOOLEAN
    /\ scanScripts \in BOOLEAN
    /\ scanPc = "ready"
    /\ scanResult = <<>>

ScanModsDirectory ==
    /\ scanPc = "ready"
    /\ scanPc' = "scanned"
    /\ scanResult' = scan_mods_directory(scanFs, scanVerbose, scanScripts)
    /\ UNCHANGED <<scanFs, scanVerbose, scanScripts, aggVars, parVars, parseVars,
                   batchVars, readerVars, guiVars>>

NextScan == ScanModsDirectory

SpecScan == InitScan /\ [][NextScan]_vars

Scanned == scanPc = "scanned"

\* the files under the directory tree whose name ends in '.package'
PackageFilesUnder(fs) ==
    {e \in fs.files : EndsWith(Lower(e.name), PackageExtension)}

\* C22: scan_mods_directory returns exactly the files under the directory
\* tree whose name ends in '.package' in any case, never a file of another
\* extension, the same list with verbose on or off; a path that is missing
\* or is not a directory raises NotADirectoryError and a fault raised by
\* the walk reaches the caller.
C22_ScanReturnsAllPackages ==
    Scanned =>
        /\ ~IsDir(scanFs) => scanResult.exc = "NotADirectoryError"
        /\ (IsDir(scanFs) /\ scanFs.walk # "none") => scanResult.exc = scanFs.walk
        /\ (IsDir(scanFs) /\ scanFs.walk = "none") =>
              /\ scanResult.exc = "none"
              /\ Range(scanResult.package_files) = PackageFilesUnder(scanFs)
              /\ Len(scanResult.package_files) = Cardinality(PackageFilesUnder(scanFs))
              /\ scanResult.package_files
                     = scan_mods_directory(scanFs, ~scanVerbose, scanScripts).package_files

(***************************************************************************)
(* The number of index records the v2 reader goes through.                 *)
(***************************************************************************)
\* the call reached the v2 reader with an index offset in range
V2ReaderInRange == Parsed /\ V2IndexInRange /\ outcome.layout = "v2"

\* min(declared_entry_count, floor((file_size - index_offset - 4) / 28), cap)
MinOfThree == Min(Min(Clamp(desc.count), MaxReadableEntries), ENTRY_CAP)

\* a table of one record more than the cap, 4 bytes after the header
LargeOffset == HEADER_SIZE + 4

LargeFileSize == LargeOffset + 4 + INDEX_ENTRY_SIZE * (ENTRY_CAP + 1)

\* C23 as stated: for every v2 file with an in-range index offset, the
\* number of index records the v2 reader attempts to decode is
\* min(declared count, floor((file_size - index_offset - 4) / 28), cap),
\* for every declared count, 0 too.
C23_AttemptsMinOfThree ==
    V2ReaderInRange => outcome.index_reads = MinOfThree

\* C23 amended: for a declared count above 0 the number of records the v2
\* reader attempts is min(declared count, floor(...), cap); for a declared
\* count of 0 the reader goes by the file size alone and attempts
\* min(floor(...), cap) records.  The cap of 10000 binds on a table of
\* 10001 records.
C23_AttemptsByCountOrSize ==
    /\ V2ReaderInRange =>
          outcome.index_reads =
              IF Clamp(desc.count) > 0 THEN MinOfThree
              ELSE Min(MaxReadableEntries, ENTRY_CAP)
    /\ \A count \in DeclaredCounts :
          ActualEntries(count, BigOfInt(LargeOffset), LargeFileSize) =
              IF Clamp(count) > 0 THEN Min(Clamp(count), ENTRY_CAP) ELSE ENTRY_CAP

\* a file that declares no entry and holds records: the reader decodes them
C23_Witness ==
    /\ V2ReaderInRange
    /\ Clamp(desc.count) = 0
    /\ outcome.index_reads >= 1
    /\ outcome.resources # {}

(***************************************************************************)
(* A table that ends inside a record.                                      *)
(***************************************************************************)
\* the bytes one record takes in the table of the file
RecordSizeInFile ==
    IF desc.layout = "v1" THEN 16 + RESOURCE_KEY_SIZE ELSE INDEX_ENTRY_SIZE

\* the records that lie whole in the file
FullRecords == (Len(desc.recs) * RecordSizeInFile - desc.cut) \div RecordSizeInFile

\* the bytes left of the record the file ends in
PartialBytes == (Len(desc.recs) * RecordSizeInFile - desc.cut) % RecordSizeInFile

\* A file of an ordinary name with the magic, a version 1 or 2 header and a
\* well placed table that declares at least the records written; the end of
\* the file is cut off inside a record (in a version 1 file inside the 16
\* bytes of its key).
TableCutInRecord ==
    /\ fileExists
    /\ path = PathOrdinary
    /\ desc.magic = MagicDBPF
    /\ \/ /\ desc.layout = "v1"
          /\ desc.major = DBPF_VERSION_1
          /\ PartialBytes < 16
       \/ /\ desc.layout = "v2"
          /\ desc.major = DBPF_VERSION_2
          /\ desc.index_offset = BigOfInt(HEADER_SIZE + 4)
          /\ desc.gap = 4
    /\ Clamp(desc.count) >= Len(desc.recs)
    /\ desc.cut > 0
    /\ desc.cut < Len(desc.recs) * RecordSizeInFile
    /\ PartialBytes > 0

\* C24: in both index readers a record read that comes back short ends the
\* iteration without a fault, and the returned set is exactly the keys of
\* the full records before it: no key is built from the partial record.
C24_ShortReadEndsQuietly ==
    (Parsed /\ TableCutInRecord) =>
        /\ outcome.exc = "none"
        /\ outcome.resources =
               {KeyOfRecord(desc.recs[i]) :
                   i \in {j \in 1..FullRecords :
                             desc.layout = "v2" => ~IsHole(desc.recs[j])}}

(***************************************************************************)
(* What a parse leaves open.                                               *)
(***************************************************************************)
\* C25: on every exit of parse_package_file, by return, by one of the early
\* returns, or by a fault (wrong magic, unsupported version, struct error,
\* I/O error, refused mapping), every file object and mapping the call
\* opened is closed: no reader stays open after the parse.
C25_NothingLeftOpen ==
    Parsed => outcome.open_handles = {}

\* a parse over a mapping that ends with a fault
C25_Witness ==
    /\ Parsed
    /\ UsesMmap(ioFault)
    /\ outcome.opened >= 1
    /\ outcome.exc = "ValueError"
    /\ outcome.open_handles = {}

(***************************************************************************)
(* Termination and the bound of the index loop.                            *)
(***************************************************************************)
\* the index loop of the call ran no more often than the cap and than the
\* file has room for records, whatever count the file declares
LoopBounded ==
    /\ outcome.index_reads <= ENTRY_CAP
    /\ fileExists => outcome.index_reads <= Len(content) \div INDEX_ENTRY_SIZE
    /\ outcome.layout = "v1" => outcome.index_reads = 0
    /\ \A count \in DeclaredCounts :
          ActualEntries(count, BigOfInt(LargeOffset), LargeFileSize) <= ENTRY_CAP

\* C26: every parse of a file ends, and its index loop runs at most a fixed
\* number of times that does not depend on the declared entry count, in the
\* v1 and in the v2 layout, also when reads of records raise errors.
C26_ParseEndsLoopBounded ==
    /\ <>Parsed
    /\ [](Parsed => LoopBounded)

\* a v2 file that declares 0xFFFFFFFF entries and whose record reads all
\* raise: the loop ran once per record the file has room for
C26_Witness ==
    /\ Parsed
    /\ outcome.layout = "v2"
    /\ desc.count = HugeU32
    /\ ioFault.first = 7
    /\ ioFault.last = MaxRequests
    /\ outcome.index_reads = MaxRecords
    /\ outcome.exc = "none"

(***************************************************************************)
(* DBPFReader used directly: the same operations are made of a reader over *)
(* a file object and of a reader over the same data held in memory.        *)
(***************************************************************************)
MaxData == 3

MaxOps == 3

\* the data: byte i has the value i
DataOfLength(n) == [i \in 1..n |-> i]

\* what an operation gave back: the bytes of a read, the position of a
\* seek or tell, or the fault of a seek
GaveBytes(data) == <<"bytes", data>>

GavePosition(p) == <<"position", p>>

GaveFault == <<"OSError">>

NothingSeen ==
    [op |-> <<"none">>, file |-> <<>>, buf |-> <<>>,
     before |-> [file |-> 0, buf |-> 0], strayed |-> FALSE]

InitReader ==
    /\ AggIdle
    /\ ParIdle
    /\ ParseIdle
    /\ BatchIdle
    /\ ScanIdle
    /\ GuiIdle
    /\ rdBytes \in {DataOfLength(n) : n \in 0..MaxData}
    /\ rdFile = OpenReader(NoFault)
    /\ rdBuf = NewBufReader(rdBytes)
    /\ rdSeen = NothingSeen
    /\ rdSteps = 0

\* the log of requests is of no use here
Forget(r) == [r EXCEPT !.log = <<>>]

Before == [file |-> ReaderTell(rdFile), buf |-> BufTell(rdBuf)]

ReadBoth(size) ==
    /\ rdSteps < MaxOps
    /\ LET f == ReaderRead(rdBytes, rdFile, size)
           b == BufRead(rdBytes, rdBuf, size)
       IN  /\ rdFile' = Forget(f.r)
           /\ rdBuf' = b.b
           /\ rdSeen' = [op |-> <<"read", size>>, file |-> GaveBytes(f.data),
                         buf |-> GaveBytes(b.data), before |-> Before,
                         strayed |-> rdSeen.strayed]
    /\ rdSteps' = rdSteps + 1
    /\ UNCHANGED <<rdBytes, aggVars, parVars, parseVars, batchVars, scanVars, guiVars>>

SeekBoth(offset, whence) ==
    /\ rdSteps < MaxOps
    /\ LET f == ReaderSeek(rdBytes, rdFile, offset, whence)
           b == BufSeek(rdBuf, offset, whence)
           target == IF whence = 1 THEN rdFile.offset + offset
                     ELSE IF whence = 2 THEN Len(rdBytes) + offset
                     ELSE offset
       IN  /\ rdFile' = Forget(f)
           /\ rdBuf' = b
           /\ rdSeen' = [op |-> <<"seek", offset, whence>>,
                         file |-> IF f.failed THEN GaveFault ELSE GavePosition(f.offset),
                         buf |-> GavePosition(b.offset), before |-> Before,
                         strayed |-> rdSeen.strayed \/ target < 0
                                         \/ target > Len(rdBytes)]
    /\ rdSteps' = rdSteps + 1
    /\ UNCHANGED <<rdBytes, aggVars, parVars, parseVars, batchVars, scanVars, guiVars>>

TellBoth ==
    /\ rdSteps < MaxOps
    /\ rdSeen' = [op |-> <<"tell">>, file |-> GavePosition(ReaderTell(rdFile)),
                  buf |-> GavePosition(BufTell(rdBuf)), before |-> Before,
                  strayed |-> rdSeen.strayed]
    /\ rdSteps' = rdSteps + 1
    /\ UNCHANGED <<rdBytes, rdFile, rdBuf, aggVars, parVars, parseVars, batchVars,
                   scanVars, guiVars>>

NextReader ==
    \/ \E size \in 0..(MaxData + 1) : ReadBoth(size)
    \/ \E offset \in (0 - MaxData - 1)..(MaxData + 1), whence \in {0, 1, 2} :
          SeekBoth(offset, whence)
    \/ TellBoth

SpecReader == InitReader /\ [][NextReader]_vars

\* C27: for the same bytes and the same operations (read; seek absolute,
\* relative and from the end, to targets before 0 or beyond the end too;
\* tell) the reader over a file object and the reader over data in memory
\* give back the same bytes and the same positions.
C27_BackingsAgree ==
    rdSeen.file = rdSeen.buf

\* bytes[p : min(p + n, s)], written out
BytesFrom(p, n) ==
    [i \in 1..Max(0, Min(p + n, Len(rdBytes)) - p) |-> rdBytes[p + i]]

\* read(n) at p gave back bytes[p : min(p + n, s)] and moved the position by
\* their number; it gave fewer than n only at the end of the data
ReadAsPromised(gave, p, n, now) ==
    /\ gave = GaveBytes(BytesFrom(p, n))
    /\ now = p + Len(gave[2])
    /\ Len(gave[2]) < n => now >= Len(rdBytes)

\* C28: read(n) at position p over data of size s returns exactly the bytes
\* [p, min(p + n, s)), fewer than n only at the end of the data, and moves
\* the position by the number of bytes returned; after any reads and seeks
\* tell() is the position of the next byte to be read.
C28_ReadContract ==
    /\ rdSeen.op[1] = "read" =>
          /\ ReadAsPromised(rdSeen.file, rdSeen.before.file, rdSeen.op[2],
                            ReaderTell(rdFile))
          /\ ReadAsPromised(rdSeen.buf, rdSeen.before.buf, rdSeen.op[2],
                            BufTell(rdBuf))
    /\ rdSeen.op[1] \in {"read", "seek", "tell"} =>
          /\ ReaderRead(rdBytes, rdFile, 1).data = BytesFrom(ReaderTell(rdFile), 1)
          /\ BufRead(rdBytes, rdBuf, 1).data = BytesFrom(BufTell(rdBuf), 1)
          /\ rdFile.offset = ReaderTell(rdFile)

\* a read that ran into the end of the data after a seek
C28_Witness ==
    /\ rdSeen.op = <<"read", 2>>
    /\ rdSeen.before.buf = Len(rdBytes) - 1
    /\ rdSeen.before.buf > 0
    /\ Len(rdSeen.buf[2]) = 1
    /\ rdSeen.file = rdSeen.buf

(***************************************************************************)
(* The command line and the GUI on the same files.                         *)
(***************************************************************************)
\* the mapping the GUI hands to find_conflicts after its loop
GuiMap == GuiResourceMap(batchFiles, batchOutcomes, 1, [order |-> <<>>, sets |-> <<>>])

\* C29: for any list of distinct paths and any outcomes of their parses the
\* conflict map of the command line (inline append, then the filter on more
\* than one path) equals, key for key and list for list, the map the GUI
\* gets from find_conflicts over the files that parsed to a set that is not
\* empty; the files that fault or yield no key change neither result.
C29_CliEqualsGui ==
    BatchDone =>
        /\ ~find_conflicts(GuiMap.order, GuiMap.sets, FALSE).raised
        /\ conflicts = find_conflicts(GuiMap.order, GuiMap.sets, FALSE).map
        /\ conflicts = detect_conflicts_merge(GuiMap.order, GuiMap.sets).map

\* a finished scan with a conflict, a file that faulted and nothing else
C29_Witness ==
    /\ BatchDone
    /\ DOMAIN conflicts # {}
    /\ \E i \in 1..Len(batchOutcomes) : batchOutcomes[i].exc # "none"
    /\ Len(GuiMap.order) < Len(batchFiles)

(***************************************************************************)
(* The GUI, mod_conflict_detector.py 718-806.  The run button is a         *)
(* ttk.Button whose command is run_detection: a click calls it only while  *)
(* the button is not disabled.  run_detection schedules _execute_detection *)
(* with root.after; the callback runs inside the event loop, which handles *)
(* no other event until the callback returns, except while one of its      *)
(* message boxes is open.                                                  *)
(***************************************************************************)
MaxRuns == 2

MaxGuiFiles == 2

\* the entry field: empty, a path that does not exist, a directory
ModsDirs == {"", "missing", "mods"}

\* the event loop handles events: no callback runs, or one waits in a message box
EventLoopRuns == guiPc \in {"idle", "dialog", "error dialog"}

InitGui ==
    /\ AggIdle
    /\ ParIdle
    /\ ParseIdle
    /\ BatchIdle
    /\ ScanIdle
    /\ ReaderIdle
    /\ guiPc = "idle"
    /\ run_button = "normal"
    /\ sys_stdout = "console"
    /\ guiCall = <<>>
    /\ mods_dir \in ModsDirs
    /\ scheduled = <<>>
    /\ guiRuns = 0
    /\ guiEnd = "none"

NotGui == <<aggVars, parVars, parseVars, batchVars, scanVars, readerVars>>

\* the user types or browses another directory
EditModsDir(d) ==
    /\ guiPc = "idle"
    /\ d # mods_dir
    /\ mods_dir' = d
    /\ UNCHANGED <<guiPc, run_button, sys_stdout, guiCall, scheduled, guiRuns, guiEnd, NotGui>>

\* mutant of StartedButton: run_detection leaves the button as it is
StartedButtonLeft(button) == button

\* Line 733: self.run_button.state(['disabled'])
StartedButton(button) == "disabled"

\* Lines 718-753, run_detection, called by a click on the enabled button
RunDetection ==
    /\ EventLoopRuns
    /\ run_button # "disabled"
    /\ guiRuns < MaxRuns
    /\ guiRuns' = guiRuns + 1
    /\ IF mods_dir = "" \/ mods_dir = "missing"
       THEN /\ guiEnd' = "rejected"
            /\ UNCHANGED <<run_button, sys_stdout, scheduled>>
       ELSE \E after_raises \in BOOLEAN :
               IF after_raises
               THEN /\ sys_stdout' = sys_stdout
                    /\ run_button' = "normal"
                    /\ guiEnd' = "not scheduled"
                    /\ UNCHANGED scheduled
               ELSE /\ run_button' = StartedButton(run_button)
                    /\ sys_stdout' = "redirect"
                    /\ scheduled' = Append(scheduled,
                                           [mods_dir |-> mods_dir,
                                            old_stdout |-> sys_stdout])
                    /\ UNCHANGED guiEnd
    /\ UNCHANGED <<guiPc, guiCall, mods_dir, NotGui>>

\* the event loop calls the scheduled _execute_detection
AfterFires ==
    /\ guiPc = "idle"
    /\ scheduled # <<>>
    /\ guiCall' = [mods_dir |-> Head(scheduled).mods_dir,
                   old_stdout |-> Head(scheduled).old_stdout,
                   files_left |-> 0, stored |-> 0, raised |-> FALSE,
                   found |-> FALSE]
    /\ scheduled' = Tail(scheduled)
    /\ guiPc' = "scan"
    /\ UNCHANGED <<run_button, sys_stdout, mods_dir, guiRuns, guiEnd, NotGui>>

\* Line 758: scan_mods_directory returns a list or raises
GuiScan ==
    /\ guiPc = "scan"
    /\ \/ \E n \in 0..MaxGuiFiles :
             /\ guiCall' = [guiCall EXCEPT !.files_left = n]
             /\ guiPc' = "parse"
       \/ /\ guiCall' = [guiCall EXCEPT !.raised = TRUE]
          /\ guiPc' = "except"
    /\ UNCHANGED <<run_button, sys_stdout, mods_dir, scheduled, guiRuns, guiEnd, NotGui>>

\* Lines 764-779: one file; a fault of its parse is caught inside the loop
GuiParseFile ==
    /\ guiPc = "parse"
    /\ guiCall.files_left > 0
    /\ \E result \in {"keys", "empty", "fault"} :
          guiCall' = [guiCall EXCEPT !.files_left = @ - 1,
                                     !.stored = IF result = "keys" THEN @ + 1 ELSE @]
    /\ UNCHANGED <<guiPc, run_button, sys_stdout, mods_dir, scheduled, guiRuns, guiEnd,
                   NotGui>>

\* Lines 782-786: find_conflicts; conflicts need two files with keys
GuiFindConflicts ==
    /\ guiPc = "parse"
    /\ guiCall.files_left = 0
    /\ \E found \in {f \in BOOLEAN : f => guiCall.stored >= 2} :
          /\ guiCall' = [guiCall EXCEPT !.found = found]
          /\ guiPc' = IF found THEN "report" ELSE "dialog"
    /\ UNCHANGED <<run_button, sys_stdout, mods_dir, scheduled, guiRuns, guiEnd, NotGui>>

\* Lines 787-796: generate_report writes the report or raises
GuiReport ==
    /\ guiPc = "report"
    /\ \/ /\ guiPc' = "dialog"
          /\ UNCHANGED guiCall
       \/ /\ guiCall' = [guiCall EXCEPT !.raised = TRUE]
          /\ guiPc' = "except"
    /\ UNCHANGED <<run_button, sys_stdout, mods_dir, scheduled, guiRuns, guiEnd, NotGui>>

\* Lines 791-799: the message box of the result is closed, or it raises
GuiDialogEnds ==
    /\ guiPc = "dialog"
    /\ \/ /\ guiPc' = "finally"
          /\ UNCHANGED guiCall
       \/ /\ guiCall' = [guiCall EXCEPT !.raised = TRUE]
          /\ guiPc' = "except"
    /\ UNCHANGED <<run_button, sys_stdout, mods_dir, scheduled, guiRuns, guiEnd, NotGui>>

\* Lines 801-802: except Exception shows the error box
GuiExcept ==
    /\ guiPc = "except"
    /\ guiPc' = "error dialog"
    /\ UNCHANGED <<run_button, sys_stdout, guiCall, mods_dir, scheduled, guiRuns, guiEnd,
                   NotGui>>

\* the error box is closed
GuiErrorDialogEnds ==
    /\ guiPc = "error dialog"
    /\ guiPc' = "finally"
    /\ UNCHANGED <<run_button, sys_stdout, guiCall, mods_dir, scheduled, guiRuns, guiEnd,
                   NotGui>>

\* mutant of EndOfCall: the restoring is the last statement of the try
\* body, so a call that raised leaves things as they are
EndOfCallInTryBody(call, stdout, button) ==
    IF call.raised THEN [stdout |-> stdout, button |-> button]
    ELSE [stdout |-> call.old_stdout, button |-> "normal"]

\* Lines 803-806, the finally clause
EndOfCall(call, stdout, button) ==
    [stdout |-> call.old_stdout, button |-> "normal"]

GuiFinally ==
    /\ guiPc = "finally"
    /\ sys_stdout' = EndOfCall(guiCall, sys_stdout, run_button).stdout
    /\ run_button' = EndOfCall(guiCall, sys_stdout, run_button).button
    /\ guiEnd' = IF guiCall.raised THEN "error"
                 ELSE IF guiCall.found THEN "conflicts" ELSE "no conflicts"
    /\ guiCall' = <<>>
    /\ guiPc' = "idle"
    /\ UNCHANGED <<mods_dir, scheduled, guiRuns, NotGui>>

\* the steps of the scheduled call
GuiCallback ==
    \/ AfterFires
    \/ GuiScan
    \/ GuiParseFile
    \/ GuiFindConflicts
    \/ GuiReport
    \/ GuiDialogEnds
    \/ GuiExcept
    \/ GuiErrorDialogEnds
    \/ GuiFinally

NextGui ==
    \/ \E d \in ModsDirs : EditModsDir(d)
    \/ RunDetection
    \/ GuiCallback

\* the event loop calls what root.after holds, a callback runs to its end,
\* and the user closes a message box
SpecGui == InitGui /\ [][NextGui]_vars /\ WF_guiVars(GuiCallback)

\* the detections scheduled or running
InProgress == Len(scheduled) + (IF guiPc = "idle" THEN 0 ELSE 1)

GuiSafe ==
    /\ InProgress <= 1
    /\ InProgress = 1 => run_button = "disabled" /\ sys_stdout = "redirect"
    /\ InProgress = 0 => run_button = "normal" /\ sys_stdout = "console"

\* C30: once run_detection has passed its checks the run button stays
\* disabled and sys.stdout redirected until the scheduled _execute_detection
\* ends; on every way it can end (conflicts, no conflicts, a fault of a
\* file, an exception in scanning or reporting) sys.stdout is restored and
\* the button enabled again: no second detection starts while one is in
\* progress, and the button does not stay disabled for ever.
C30_ButtonAndStdoutRestored ==
    /\ []GuiSafe
    /\ (InProgress = 1) ~> (InProgress = 0 /\ run_button = "normal"
                             /\ sys_stdout = "console")

\* a detection that ended in the except clause, then a second one started
C30_Witness ==
    /\ guiEnd = "error"
    /\ guiRuns = 2
    /\ InProgress = 1
    /\ run_button = "disabled"

====
